---- MODULE Spec2Model ----
(***************************************************************************)
(* Model of the Deerma water purifier integration:                         *)
(*   - DeermaWaterCoordinator (coordinator.py): the merged snapshot        *)
(*     self.data, the polling refresh _async_update_data and the push      *)
(*     callback _mqtt_callback;                                            *)
(*   - DeermaMQTTClient (mqtt_client.py): connect / listen / reconnect /   *)
(*     disconnect of the MQTT-over-WebSocket session.                      *)
(* asyncio runs one task at a time and switches tasks only at an await, so *)
(* every action below is the code between two awaits of one task.          *)
(***************************************************************************)
EXTENDS Integers, Sequences, FiniteSets, TLC

(***************************************************************************)
(* Bounds of the model                                                     *)
(***************************************************************************)
\* field values range over 1..MaxVal
MaxVal == 2

\* number of WebSocket objects that can exist at a time
MaxTransports == 2

\* number of calls (connect, set temperature, disconnect) the callers make
MaxCalls == 2

\* remaining lengths from 0 up to this, and the boundary values, are encoded
MaxLength == 150

\* the setting codes drawn are the numerals of 0 up to this, and some others
MaxCode == 12
MaxCut == 40

(***************************************************************************)
(* Coordinator: data domain                                                *)
(***************************************************************************)
\* the two keys _async_update_data owns and filters out of the kept fields
ReservedKeys == {"water_data", "device_id"}

\* self.device_id, fixed at construction; as a value of the "device_id" key
DeviceId == 0

\* the blank water data get_water_data returns after an aiohttp.ClientError
\* ({"total": {}, "daily": [], "weekly": [], "monthly": []})
WaterBlank == 0

Values == 1..MaxVal

\* field names a device status poll may carry
StatusFields == {"x", "y"}

\* field names a pushed `reported` state may carry (opaque names; the cloud
\* is free to report a field called device_id)
PushFields == {"y", "device_id"}

\* all dicts with keys among F and values among V
Dicts(F, V) == UNION {[D -> V] : D \in SUBSET F}

EmptyDict == [f \in {} |-> 0]

\* Python {**a, **b}: b's entries override a's
Merge(a, b) ==
    [f \in (DOMAIN a) \cup (DOMAIN b) |-> IF f \in DOMAIN b THEN b[f] ELSE a[f]]

\* {k: v for k, v in d.items() if k not in keys}
Without(d, keys) == [f \in (DOMAIN d) \ keys |-> d[f]]

VARIABLES
    data,         \* coordinator.data, the MergedSnapshot ({} stands for None)
    rpc,          \* position of the refresh task in _async_update_data
    r_mqtt,       \* its local mqtt_data, computed when it started
    r_water,      \* its local water_data (result of get_water_data)
    r_status,     \* outcome of get_device_status, once it has arrived
    pushLayer,    \* history: every field ever pushed, with its latest value
    overlapPush,  \* history: fields pushed since the running refresh started
    overlapped,   \* history: some push arrived while a refresh was running
    pollSincePush,\* history: outcome of the latest refresh that returned
                  \* since the latest push
    dropped       \* _setup_mqtt has set self.mqtt_client back to None

coordVars == <<data, rpc, r_mqtt, r_water, r_status, pushLayer, overlapPush,
               overlapped, pollSincePush, dropped>>

(***************************************************************************)
(* Session (DeermaMQTTClient): tasks and state                             *)
(***************************************************************************)
\* the tasks of the integration that call into the session: the coordinator
\* (async_connect in _setup_mqtt, disconnect in async_shutdown) and an entity
\* making setting requests
Callers == {"coordinator", "entity"}

\* the tasks running _listen_messages; connect() creates a new one each time
Listeners == {"l1", "l2", "l3"}

Tasks == Callers \cup Listeners

NoTask == "none"

\* self._websocket = None
NoHandle == 0

Handles == 1..MaxTransports

\* for delay in [5, 10, 15, 30]
Delays == <<5, 10, 15, 30>>

\* the positions of a task inside connect(): waiting for _connect_lock, then
\* the awaits of the connect sequence
ConnectPcs == {"c_lock", "c_cfg", "c_open", "c_grace", "c_sub1", "c_sub2",
               "c_get", "c_close"}

\* the outcomes of _get_mqtt_config_from_api: {} ("empty"), or a dict with or
\* without the keys host and clientID
ConfigKinds == {"empty", "nohost", "noclient", "full"}

VARIABLES
    connected,    \* self.connected
    websocket,    \* self._websocket: NoHandle or the handle of a WebSocket
    listening,    \* self._listening
    listen_task,  \* self._listen_task: NoTask or a listener
    lock_owner,   \* the task holding self._connect_lock, or NoTask
    lock_waiters, \* the tasks waiting for it, in order of arrival
    transport,    \* per handle: "open" or "closed" (also: not yet opened)
    sent,         \* history, per handle: the frames written to it since it
                  \* was opened, in order; empty once it is closed
    pc,           \* per task: where it is suspended
    op,           \* per caller: the call it is executing
    mqtt_config,  \* per task: the config its connect() fetched
    rh,           \* per listener: the handle its recv() waits on
    delay_idx,    \* per listener: index of its reconnect loop in Delays (0:
                  \* not in the loop)
    cancel_req,   \* per task: cancel() was called, CancelledError is pending
    calls,        \* history: number of calls made by the callers
    opened,       \* history, per task: the handle its connect() has opened
    last_return,  \* history: the connect() and the call of a caller that
                  \* returned in the last step
    stopped,      \* history: disconnect() was called, no connect() or
                  \* setting request was made since
    lost          \* history: the connection was lost unexpectedly and has
                  \* not been re-established or shut down since

sessVars == <<connected, websocket, listening, listen_task, lock_owner,
              lock_waiters, transport, sent, pc, op, mqtt_config,
              rh, delay_idx, cancel_req, calls, opened, last_return,
              stopped, lost>>

(***************************************************************************)
(* The functions of the session applied to a value: argument and result    *)
(***************************************************************************)
VARIABLES
    input,        \* history: the value the step just taken applied a function
                  \* of the session to (a received message, an argument)
    output        \* history: what that function returned or did

codecVars == <<input, output>>

vars == <<coordVars, sessVars, codecVars>>

\* no function was applied
NoInput == [fn |-> "none"]
NoOutput == [fn |-> "none"]

\* the step applies none of these functions
NoneApplied ==
    /\ input' = NoInput
    /\ output' = NoOutput

InitCodec ==
    /\ input = NoInput
    /\ output = NoOutput

NoStatus == [kind |-> "none", value |-> EmptyDict]

InitCoord ==
    /\ data = EmptyDict
    /\ rpc = "idle"
    /\ r_mqtt = EmptyDict
    /\ r_water = WaterBlank
    /\ r_status = NoStatus
    /\ pushLayer = EmptyDict
    /\ overlapPush = EmptyDict
    /\ overlapped = FALSE
    /\ pollSincePush = NoStatus
    /\ dropped = FALSE

(***************************************************************************)
(* Coordinator: _mqtt_callback                                             *)
(***************************************************************************)
\* merged_data with the two dicts the other way round
MergedUnderCurrent(current, payload) == Merge(payload, current)

\* merged_data = {**current_data, **payload}
MergedData(current, payload) == Merge(current, payload)

\* _mqtt_callback(payload) followed by async_set_updated_data(merged_data)
mqtt_callback(payload) ==
    /\ data' = MergedData(data, payload)
    /\ pushLayer' = Merge(pushLayer, payload)
    /\ overlapPush' = IF rpc = "idle" THEN overlapPush
                      ELSE Merge(overlapPush, payload)
    /\ overlapped' = (overlapped \/ rpc # "idle")
    /\ pollSincePush' = NoStatus
    /\ UNCHANGED <<rpc, r_mqtt, r_water, r_status, dropped>>

\* async_config_entry_first_refresh sets up the MQTT session only after the
\* first refresh has returned a snapshot: no push arrives before that
MqttSetUp == data # EmptyDict

\* a push delivered by the session: `reported` is non-empty when the callback
\* is invoked
Push ==
    /\ MqttSetUp
    /\ \E payload \in Dicts(PushFields, Values) \ {EmptyDict} :
           mqtt_callback(payload)

(***************************************************************************)
(* Coordinator: _async_update_data                                         *)
(***************************************************************************)
\* mqtt_data = {k: v for k, v in existing_data.items()
\*              if k not in ["water_data", "device_id"]}
MqttData(existing) == Without(existing, ReservedKeys)

\* RefreshResult with the last two layers swapped: the poll's status is merged
\* over the kept fields
StatusOverMqtt(water, status, mqtt) ==
    Merge(Merge([f \in ReservedKeys |->
                    IF f = "water_data" THEN water ELSE DeviceId],
                mqtt),
          status)

\* RefreshResult without its last layer: the fields kept from the existing
\* snapshot are not merged in
PolledOnly(water, status, mqtt) ==
    Merge([f \in ReservedKeys |->
              IF f = "water_data" THEN water ELSE DeviceId],
          status)

\* the dict returned on success:
\* {"water_data": water_data, "device_id": self.device_id, **status, **mqtt_data}
RefreshResult(water, status, mqtt) ==
    Merge(Merge([f \in ReservedKeys |->
                    IF f = "water_data" THEN water ELSE DeviceId],
                status),
          mqtt)

\* the refresh starts: existing_data and mqtt_data are read from self.data,
\* then the task awaits get_water_data
RefreshStart ==
    /\ rpc = "idle"
    /\ rpc' = "water"
    /\ r_mqtt' = MqttData(data)
    /\ overlapPush' = EmptyDict
    /\ UNCHANGED <<data, r_water, r_status, pushLayer, overlapped,
                   pollSincePush, dropped>>

\* the except branch: `return self.data` when there is data, else UpdateFailed
\* (the framework then keeps self.data as it is)
RefreshFailed ==
    /\ data' = data
    /\ rpc' = "idle"
    /\ r_mqtt' = EmptyDict
    /\ r_water' = WaterBlank
    /\ r_status' = NoStatus
    /\ overlapPush' = EmptyDict
    /\ pollSincePush' = [kind |-> "raised", value |-> EmptyDict]
    /\ UNCHANGED <<pushLayer, overlapped, dropped>>

\* get_water_data returns: the four usage reports, or, after an
\* aiohttp.ClientError (connection error, HTTP error status), the blank
\* default; the task goes on to await get_device_status
WaterReturns ==
    /\ rpc = "water"
    /\ \E w \in Values \cup {WaterBlank} : r_water' = w
    /\ rpc' = "status"
    /\ UNCHANGED <<data, r_mqtt, r_status, pushLayer, overlapPush, overlapped,
                   pollSincePush, dropped>>

\* get_water_data raises (a timeout, a failed login, invalid JSON): these are
\* no aiohttp.ClientError and reach the except branch of _async_update_data
WaterRaises ==
    /\ rpc = "water"
    /\ RefreshFailed

\* the answer of get_device_status arrives: a status dict ("ok"), {} after an
\* aiohttp.ClientError or an API error code ("client_error"), or an exception
StatusArrives ==
    /\ rpc = "status"
    /\ rpc' = "commit"
    /\ \/ \E s \in Dicts(StatusFields, Values) :
            r_status' = [kind |-> "ok", value |-> s]
       \/ r_status' = [kind |-> "client_error", value |-> EmptyDict]
       \/ r_status' = [kind |-> "raised", value |-> EmptyDict]
    /\ UNCHANGED <<data, r_mqtt, r_water, pushLayer, overlapPush, overlapped,
                   pollSincePush, dropped>>

\* the task resumes after get_device_status and returns; the framework
\* stores the returned dict in self.data
RefreshCommit ==
    /\ rpc = "commit"
    /\ IF r_status.kind = "raised"
       THEN RefreshFailed
       ELSE /\ data' = RefreshResult(r_water, r_status.value, r_mqtt)
            /\ rpc' = "idle"
            /\ r_mqtt' = EmptyDict
            /\ r_water' = WaterBlank
            /\ r_status' = NoStatus
            /\ overlapPush' = EmptyDict
            /\ pollSincePush' = r_status
            /\ UNCHANGED <<pushLayer, overlapped, dropped>>

(***************************************************************************)
(* MQTT codec: text and bytes                                              *)
(***************************************************************************)
\* a str is a sequence of characters, a bytes object a sequence of 0..255

\* the printable ASCII characters, in the order of their code points 32..126
\* (the grave accent is written U+0060)
Ascii ==
    <<" ", "!", "\"", "#", "$", "%", "&", "'", "(", ")", "*", "+", ",",
      "-", ".", "/", "0", "1", "2", "3", "4", "5", "6", "7", "8", "9", ":",
      ";", "<", "=", ">", "?", "@", "A", "B", "C", "D", "E", "F", "G", "H",
      "I", "J", "K", "L", "M", "N", "O", "P", "Q", "R", "S", "T", "U", "V",
      "W", "X", "Y", "Z", "[", "\\", "]", "^", "_", "U+0060", "a", "b", "c",
      "d", "e", "f", "g", "h", "i", "j", "k", "l", "m", "n", "o", "p", "q",
      "r", "s", "t", "u", "v", "w", "x", "y", "z", "{", "|", "}", "~">>

\* a character outside ASCII (U+00E9) and the one standing for every
\* character that is none of the above
NonAscii == "U+00E9"
OtherChar == "U+FFFD"

\* ord(c) for the characters above
ord(c) ==
    IF c = NonAscii THEN 233
    ELSE IF c = OtherChar THEN 65533
    ELSE 31 + (CHOOSE i \in 1..Len(Ascii) : Ascii[i] = c)

\* chr(cp)
chr(cp) ==
    IF cp \in 32..126 THEN Ascii[cp - 31]
    ELSE IF cp = 233 THEN NonAscii
    ELSE OtherChar

\* the concatenation of the sequences of a sequence (by halves)
RECURSIVE Concat(_)
Concat(seqs) ==
    IF Len(seqs) = 0 THEN <<>>
    ELSE IF Len(seqs) = 1 THEN seqs[1]
    ELSE LET half == Len(seqs) \div 2
         IN Concat(SubSeq(seqs, 1, half))
            \o Concat(SubSeq(seqs, half + 1, Len(seqs)))

\* c.encode("utf-8") for one character: one byte below U+0080, two below
\* U+0800, else three
Utf8(c) ==
    LET cp == ord(c)
    IN IF cp < 128 THEN <<cp>>
       ELSE IF cp < 2048 THEN <<192 + (cp \div 64), 128 + (cp % 64)>>
       ELSE <<224 + (cp \div 4096), 128 + ((cp \div 64) % 64),
              128 + (cp % 64)>>

\* text.encode("utf-8")
encode(text) == Concat([i \in 1..Len(text) |-> Utf8(text[i])])

\* bytes.decode("utf-8"), byte by byte (1-based).  A byte below 0x80 is one
\* character; a lead byte 0xC2..0xDF with a continuation byte 0x80..0xBF
\* behind it is one character, the continuation byte being used up; any
\* other byte is malformed
Lead(bytes, i) ==
    /\ bytes[i] \in 194..223
    /\ i < Len(bytes)
    /\ bytes[i + 1] \in 128..191

Continues(bytes, i) == i > 1 /\ Lead(bytes, i - 1)

Malformed(bytes, i) ==
    bytes[i] >= 128 /\ ~Lead(bytes, i) /\ ~Continues(bytes, i)

\* the text decoded, malformed bytes left out (errors="ignore"), and whether
\* there was none (else bytes.decode("utf-8") raises UnicodeDecodeError)
Decoded(bytes) ==
    [ok |-> \A i \in 1..Len(bytes) : ~Malformed(bytes, i),
     text |-> Concat([i \in 1..Len(bytes) |->
                 IF bytes[i] < 128 THEN <<chr(bytes[i])>>
                 ELSE IF Lead(bytes, i)
                 THEN <<chr((bytes[i] - 192) * 64 + (bytes[i + 1] - 128))>>
                 ELSE <<>>])]

\* bytes.decode("utf-8", errors="ignore")
decode_ignore(bytes) == Decoded(bytes).text

\* `sub in text` for two str
In(sub, text) ==
    \E i \in 1..(Len(text) - Len(sub) + 1) :
        SubSeq(text, i, i + Len(sub) - 1) = sub

\* the device id of the model
device_id == <<"D">>

\* the words the topic names are made of
AwsThings == <<"$", "a", "w", "s", "/", "t", "h", "i", "n", "g", "s", "/">>
Shadow == <<"/", "s", "h", "a", "d", "o", "w">>
Update == <<"/", "u", "p", "d", "a", "t", "e">>
Get == <<"/", "g", "e", "t">>
Accepted == <<"/", "a", "c", "c", "e", "p", "t", "e", "d">>

\* the topics in full ($aws/things/{device_id}/shadow/...), by the names the
\* session model uses for them; "other/..." is the topic of the device E
TopicText(name) ==
    IF name = "other/shadow/update/accepted"
    THEN AwsThings \o <<"E">> \o Shadow \o Update \o Accepted
    ELSE AwsThings \o device_id \o Shadow
         \o (CASE name = "shadow/update" -> Update
               [] name = "shadow/get" -> Get
               [] name = "shadow/get/#" -> Get \o <<"/", "#">>
               [] name = "shadow/get/accepted" -> Get \o Accepted
               [] name = "shadow/update/accepted" -> Update \o Accepted)

(***************************************************************************)
(* MQTT codec: JSON                                                        *)
(***************************************************************************)
\* a JSON value carries its Python type: int, str, list, or dict, a dict
\* being the sequence of its <<key, value>> items in insertion order
JInt(n) == [t |-> "int", v |-> n]
JStr(text) == [t |-> "str", v |-> text]
JList(items) == [t |-> "list", v |-> items]
JDict(items) == [t |-> "dict", v |-> items]
JNone == [t |-> "NoneType", v |-> <<>>]

\* the keys of the dicts, as they are spelled
KeyText(key) ==
    CASE key = "state" -> <<"s", "t", "a", "t", "e">>
      [] key = "reported" -> <<"r", "e", "p", "o", "r", "t", "e", "d">>
      [] key = "desired" -> <<"d", "e", "s", "i", "r", "e", "d">>
      [] key = "SetTemp" -> <<"S", "e", "t", "T", "e", "m", "p">>
      [] key = "SetOutlet" -> <<"S", "e", "t", "O", "u", "t", "l", "e", "t">>
      [] key = "CommandType" -> <<"C", "o", "m", "m", "a", "n", "d", "T", "y", "p", "e">>
      [] key = "EnduserId" -> <<"E", "n", "d", "u", "s", "e", "r", "I", "d">>
      [] key = "device_id" -> <<"d", "e", "v", "i", "c", "e", "_", "i", "d">>
      [] key = "x" -> <<"x">>
      [] key = "y" -> <<"y">>

\* str(n) for an int
RECURSIVE str(_)
str(n) ==
    IF n < 0 THEN <<"-">> \o str(0 - n)
    ELSE IF n < 10 THEN <<chr(48 + n)>>
    ELSE str(n \div 10) \o <<chr(48 + (n % 10))>>

\* the parts joined by commas
RECURSIVE Join(_)
Join(parts) ==
    IF Len(parts) = 0 THEN <<>>
    ELSE IF Len(parts) = 1 THEN parts[1]
    ELSE parts[1] \o <<",">> \o Join(Tail(parts))

\* a JSON string: quotes and backslashes are escaped, and a character
\* outside ASCII is written \uXXXX (ensure_ascii)
Quoted(text) ==
    <<"\"">>
    \o Concat([i \in 1..Len(text) |->
                  IF text[i] \in {"\"", "\\"} THEN <<"\\", text[i]>>
                  ELSE IF text[i] = NonAscii
                  THEN <<"\\", "u", "0", "0", "e", "9">>
                  ELSE <<text[i]>>])
    \o <<"\"">>

\* json.dumps(value, separators=(',', ':'))
RECURSIVE dumps(_)
dumps(value) ==
    CASE value.t = "int" -> str(value.v)
      [] value.t = "NoneType" -> <<"n", "u", "l", "l">>
      [] value.t = "str" -> Quoted(value.v)
      [] value.t = "list" ->
            <<"[">>
            \o Join([i \in 1..Len(value.v) |-> dumps(value.v[i])])
            \o <<"]">>
      [] value.t = "dict" ->
            <<"{">>
            \o Join([i \in 1..Len(value.v) |->
                        Quoted(KeyText(value.v[i][1])) \o <<":">>
                        \o dumps(value.v[i][2])])
            \o <<"}">>

\* dict.get(key, {}) and `key in dict`
HasKey(dict, key) == \E i \in 1..Len(dict.v) : dict.v[i][1] = key

GetOrEmpty(dict, key) ==
    IF HasKey(dict, key)
    THEN dict.v[CHOOSE i \in 1..Len(dict.v) : dict.v[i][1] = key][2]
    ELSE JDict(<<>>)

\* bool(value)
Truthy(value) ==
    IF value.t = "int" THEN value.v # 0 ELSE Len(value.v) > 0

(***************************************************************************)
(* MQTT codec: the documents of the model                                  *)
(***************************************************************************)
\* the shadow document with these `reported` and `desired` states (None: the
\* key is absent)
ShadowDocument(reported, desired) ==
    JDict(<< <<"state",
               JDict((IF reported.t = "NoneType" THEN <<>>
                      ELSE << <<"reported", reported>> >>)
                     \o (IF desired.t = "NoneType" THEN <<>>
                         ELSE << <<"desired", desired>> >>))>> >>)

\* the JSON values that are sent and received
Documents ==
    <<JDict(<<>>),                                               \* 1: {}
      JDict(<< <<"x", JInt(1)>> >>),                             \* 2
      ShadowDocument(JDict(<< <<"y", JInt(1)>> >>), JNone),      \* 3
      ShadowDocument(JDict(<< <<"y", JInt(1)>> >>),
                     JDict(<< <<"y", JInt(2)>> >>)),             \* 4
      ShadowDocument(JNone, JDict(<< <<"y", JInt(2)>> >>)),      \* 5
      ShadowDocument(JDict(<<>>), JDict(<< <<"y", JInt(2)>> >>)),\* 6
      JDict(<< <<"state", JDict(<< <<"reported", JNone>>,
                                   <<"desired",
                                     JDict(<< <<"y", JInt(2)>> >>)>> >>)>>
            >>),                                                 \* 7
      JList(<<JInt(1)>>),                                        \* 8: [1]
      JDict(<< <<"state", JInt(5)>> >>),                         \* 9
      ShadowDocument(JInt(5), JNone),                            \* 10
      ShadowDocument(JList(<<JInt(1)>>), JNone),                 \* 11
      JInt(12),                                                  \* 12
      JInt(1),                                                   \* 13
      JDict(<< <<"x", JStr([i \in 1..130 |-> "a"])>> >>),        \* 14
      JDict(<< <<"x", JStr(<<NonAscii, "\"", "\\">>)>> >>),       \* 15
      JDict(<< <<"state", JDict(<< <<"desired", JDict(<<
          <<"SetTemp", JInt(6)>>,
          <<"CommandType", JStr(<<"a", "p", "p">>)>>,
          <<"EnduserId", JStr(device_id)>> >>)>> >>)>> >>),      \* 16
      ShadowDocument(JDict(<< <<"x", JInt(1)>> >>), JNone),      \* 17
      ShadowDocument(JDict(<< <<"y", JInt(2)>> >>), JNone),      \* 18
      ShadowDocument(JDict(<< <<"device_id", JInt(1)>>,
                              <<"y", JInt(1)>> >>), JNone)       \* 19
    >>

\* their texts
DocumentTexts == [i \in 1..Len(Documents) |-> dumps(Documents[i])]

\* json.loads(text) raised (JSONDecodeError)
JsonError == [t |-> "error", v |-> <<>>]

\* json.loads(text): the document with this text; a text that is the text of
\* none of the documents is malformed (the texts received are those of the
\* documents, whole or cut short, and no cut of one is well-formed except
\* where it is the text of another)
loads(text) ==
    IF \E i \in 1..Len(Documents) : DocumentTexts[i] = text
    THEN Documents[CHOOSE i \in 1..Len(Documents) : DocumentTexts[i] = text]
    ELSE JsonError

(***************************************************************************)
(* MQTT codec: packets                                                     *)
(***************************************************************************)
\* _encode_mqtt_remaining_length without the continuation bit
RECURSIVE encode_without_continuation(_)
encode_without_continuation(length) ==
    IF length \div 128 > 0
    THEN <<length % 128>> \o encode_without_continuation(length \div 128)
    ELSE <<length % 128>>

\* _encode_mqtt_remaining_length: seven bits a byte, the low ones first, and
\* 0x80 set on every byte that another one follows
RECURSIVE encode_mqtt_remaining_length(_)
encode_mqtt_remaining_length(length) ==
    IF length \div 128 > 0
    THEN <<(length % 128) + 128>>
         \o encode_mqtt_remaining_length(length \div 128)
    ELSE <<length % 128>>

\* the loop of _parse_mqtt_remaining_length at pos (0-based, as in the code)
RECURSIVE ParseLength(_, _, _, _, _)
ParseLength(packet, start_pos, pos, remaining_length, multiplier) ==
    IF pos < Len(packet) /\ pos < start_pos + 4
    THEN LET byte == packet[pos + 1]
             length == remaining_length + (byte % 128) * multiplier
         IN IF byte < 128 \* (byte & 0x80) == 0
            THEN [length |-> length, pos |-> pos + 1]
            ELSE ParseLength(packet, start_pos, pos + 1, length,
                             multiplier * 128)
    ELSE [length |-> remaining_length, pos |-> pos]

\* _parse_mqtt_remaining_length: (remaining length, next position)
parse_mqtt_remaining_length(packet, start_pos) ==
    ParseLength(packet, start_pos, start_pos, 0, 1)

\* packet[from:to] (0-based, `to` excluded, both cut to the length)
Slice(packet, from, to) ==
    LET end == IF to > Len(packet) THEN Len(packet) ELSE to
    IN IF from >= end THEN <<>> ELSE SubSeq(packet, from + 1, end)

\* bytes([n >> 8, n & 0xFF])
TwoBytes(n) == <<n \div 256, n % 256>>

\* _build_mqtt_connect_packet
build_mqtt_connect_packet(client_id) ==
    LET client_id_bytes == encode(client_id)
        protocol_name == encode(<<"M", "Q", "T", "T">>)
        remaining_length ==
            2 + Len(protocol_name) + 1 + 1 + 2 + 2 + Len(client_id_bytes)
    IN <<16>> \o encode_mqtt_remaining_length(remaining_length)
       \o TwoBytes(Len(protocol_name)) \o protocol_name
       \o <<4>> \o <<2>> \o <<0, 60>>
       \o TwoBytes(Len(client_id_bytes)) \o client_id_bytes

\* _build_mqtt_subscribe_packet with the QoS byte left out of the remaining
\* length
build_subscribe_qos_uncounted(topic, packet_id) ==
    LET topic_bytes == encode(topic)
        remaining_length == 2 + 2 + Len(topic_bytes)
    IN <<130>> \o encode_mqtt_remaining_length(remaining_length)
       \o TwoBytes(packet_id)
       \o TwoBytes(Len(topic_bytes)) \o topic_bytes
       \o <<1>>

\* _build_mqtt_subscribe_packet
build_mqtt_subscribe_packet(topic, packet_id) ==
    LET topic_bytes == encode(topic)
        remaining_length == 2 + 2 + Len(topic_bytes) + 1
    IN <<130>> \o encode_mqtt_remaining_length(remaining_length)
       \o TwoBytes(packet_id)
       \o TwoBytes(Len(topic_bytes)) \o topic_bytes
       \o <<1>>

\* _build_mqtt_publish_packet with the packet id left out of the remaining
\* length
build_publish_id_uncounted(topic, payload, packet_id) ==
    LET payload_bytes == encode(dumps(payload))
        topic_bytes == encode(topic)
        remaining_length == 2 + Len(topic_bytes) + Len(payload_bytes)
    IN <<50>> \o encode_mqtt_remaining_length(remaining_length)
       \o TwoBytes(Len(topic_bytes)) \o topic_bytes
       \o TwoBytes(packet_id)
       \o payload_bytes

\* _build_mqtt_publish_packet (QoS 1: first byte 0x32)
build_mqtt_publish_packet(topic, payload, packet_id) ==
    LET payload_bytes == encode(dumps(payload))
        topic_bytes == encode(topic)
        remaining_length == 2 + Len(topic_bytes) + 2 + Len(payload_bytes)
    IN <<50>> \o encode_mqtt_remaining_length(remaining_length)
       \o TwoBytes(Len(topic_bytes)) \o topic_bytes
       \o TwoBytes(packet_id)
       \o payload_bytes

\* (None, None) of _parse_mqtt_publish_packet
NoPublish == [none |-> TRUE, topic |-> <<>>, payload |-> <<>>]

\* _parse_mqtt_publish_packet: (topic, payload_bytes)
parse_mqtt_publish_packet(packet) ==
    IF Len(packet) < 4 THEN NoPublish
    ELSE
    LET parsed == parse_mqtt_remaining_length(packet, 1)
        remaining_length == parsed.length
    IN IF parsed.pos + 2 > Len(packet) \/ remaining_length = 0
       THEN NoPublish
       ELSE
       LET topic_length == packet[parsed.pos + 1] * 256
                           + packet[parsed.pos + 2]
           pos == parsed.pos + 2
       IN IF pos + topic_length > Len(packet) THEN NoPublish
          ELSE
          LET topic == decode_ignore(Slice(packet, pos, pos + topic_length))
              qos == (packet[1] \div 2) % 4 \* (packet[0] & 0x06) >> 1
              after == pos + topic_length
          IN IF qos >= 1 /\ after + 2 > Len(packet) THEN NoPublish
             ELSE
             LET start == IF qos >= 1 THEN after + 2 ELSE after
                 payload_length ==
                     remaining_length - 2 - topic_length
                     - (IF qos >= 1 THEN 2 ELSE 0)
             IN [none |-> FALSE,
                 topic |-> topic,
                 payload |->
                     IF \/ payload_length < 0
                        \/ start + payload_length > Len(packet)
                     THEN Slice(packet, start, Len(packet))
                     ELSE Slice(packet, start, start + payload_length)]

(***************************************************************************)
(* MQTT codec: _handle_mqtt_packet                                         *)
(***************************************************************************)
\* _handle_mqtt_packet returned without calling self.callback
NotCalled == [fn |-> "handled", callback |-> FALSE, reported |-> JNone]

\* it called self.callback(reported)
Called(reported) ==
    [fn |-> "handled", callback |-> TRUE, reported |-> reported]

\* the topic is one the handler reads the payload of
AcceptedTopic(topic) ==
    \/ In(Shadow \o Get \o Accepted, topic)
    \/ In(Shadow \o Update \o Accepted, topic)

\* handle_mqtt_packet taking `desired` where `reported` is empty
handle_desired_too(packet) ==
    LET publish == parse_mqtt_publish_packet(packet)
        payload_data == loads(Decoded(publish.payload).text)
        state == GetOrEmpty(payload_data, "state")
    IN IF /\ Len(packet) >= 2
          /\ packet[1] \div 16 = 3
          /\ ~publish.none
          /\ AcceptedTopic(publish.topic)
          /\ payload_data.t = "dict"
          /\ state.t = "dict"
       THEN IF Truthy(GetOrEmpty(state, "reported"))
            THEN Called(GetOrEmpty(state, "reported"))
            ELSE IF HasKey(state, "desired")
            THEN Called(GetOrEmpty(state, "desired"))
            ELSE NotCalled
       ELSE NotCalled

\* _handle_mqtt_packet(packet), by what it does with self.callback.  The
\* packet type is the high half of the first byte; CONNACK and SUBACK are
\* only logged and other types passed over.  Of a PUBLISH with a topic and a
\* payload, on an accepted topic, the payload is decoded and parsed, and a
\* `reported` state that is true is handed to the callback; any exception
\* on the way (UnicodeDecodeError, JSONDecodeError, AttributeError of .get
\* on a value that is no dict) is caught and logged
handle_mqtt_packet(packet) ==
    IF Len(packet) < 2 THEN NotCalled
    ELSE IF packet[1] \div 16 # 3 THEN NotCalled
    ELSE
    LET publish == parse_mqtt_publish_packet(packet)
        payload_str == Decoded(publish.payload)
        payload_data == loads(payload_str.text)
        state == GetOrEmpty(payload_data, "state")
        reported == GetOrEmpty(state, "reported")
    IN IF publish.none \/ publish.topic = <<>> \/ publish.payload = <<>>
       THEN NotCalled
       ELSE IF ~AcceptedTopic(publish.topic) THEN NotCalled
       ELSE IF ~payload_str.ok THEN NotCalled
       ELSE IF payload_data.t # "dict" THEN NotCalled
       ELSE IF state.t # "dict" THEN NotCalled
       ELSE IF Truthy(reported) THEN Called(reported)
       ELSE NotCalled

\* a dict of ints as the coordinator holds it
ToDict(dict) ==
    [k \in {dict.v[i][1] : i \in 1..Len(dict.v)} |->
        dict.v[CHOOSE i \in 1..Len(dict.v) : dict.v[i][1] = k][2].v]

\* a PUBLISH as the broker sends it: QoS 0 (first byte 0x30, no packet id)
\* or QoS 1
Incoming(topic, doc, qos) ==
    LET packet == build_mqtt_publish_packet(TopicText(topic),
                                            Documents[doc], 1)
        length == parse_mqtt_remaining_length(packet, 1)
        body == Slice(packet, length.pos, Len(packet))
        topic_end == 2 + Len(encode(TopicText(topic)))
    IN IF qos = 1 THEN packet
       ELSE <<48>> \o encode_mqtt_remaining_length(length.length - 2)
            \o Slice(body, 0, topic_end)
            \o Slice(body, topic_end + 2, Len(body))

\* packet with its last n bytes missing
CutShort(packet, n) == Slice(packet, 0, Len(packet) - n)

\* packet declaring n bytes more than it has (a remaining length that stays
\* in one byte)
Overstated(packet, n) ==
    <<packet[1], packet[2] + n>> \o Slice(packet, 2, Len(packet))

\* a WebSocket message: bytes, or a str (a text frame).  `kind` and `doc`
\* say what was put into it: the document it carries, or 0
Binary(kind, doc, bytes) ==
    [binary |-> TRUE, data |-> bytes, kind |-> kind, doc |-> doc]

TextFrame(text) ==
    [binary |-> FALSE, data |-> text, kind |-> "text", doc |-> 0]

\* what a message is made of: a PUBLISH of document doc on topic with QoS
\* qos, its last `cut` bytes missing, its declared length raised by `over`
\* and `tail` behind it; or the bytes `raw`; or, kind being "text", a text
\* frame holding the text of document doc
Row(kind, topic, doc, qos, cut, over, tail, raw) ==
    [kind |-> kind, topic |-> topic, doc |-> doc, qos |-> qos, cut |-> cut,
     over |-> over, tail |-> tail, raw |-> raw]

\* a PUBLISH carrying document doc
Pushed(kind, topic, doc, qos) ==
    Row(kind, topic, doc, qos, 0, 0, <<>>, <<>>)

\* the messages a listen task receives
MessageRows ==
    <<Pushed("shadow", "shadow/get/accepted", 3, 0),              \* 1
      Pushed("shadow", "shadow/update/accepted", 4, 1),           \* 2
      Pushed("shadow", "shadow/update/accepted", 5, 0),           \* 3
      Pushed("shadow", "shadow/update/accepted", 6, 0),           \* 4
      Pushed("shadow", "shadow/update/accepted", 7, 1),           \* 5
      Row("connack", "", 0, 0, 0, 0, <<>>, <<32, 2, 0, 0>>),      \* 6
      Row("suback", "", 0, 0, 0, 0, <<>>, <<144, 3, 0, 1, 1>>),   \* 7
      Row("text", "", 3, 0, 0, 0, <<>>, <<>>),                    \* 8
      Row("undecodable", "", 0, 0, 0, 0, <<>>, <<48>>),           \* 9
      Row("not_json", "shadow/get/accepted", 3, 0, 2, 0,
          <<>>, <<>>),                                            \* 10
      Row("undecodable", "shadow/get/accepted", 3, 0, 40, 0,
          <<>>, <<>>),                                            \* 11
      Pushed("not_shadow", "shadow/get/accepted", 8, 0),          \* 12
      Pushed("not_shadow", "shadow/get/accepted", 9, 0),          \* 13
      Pushed("not_shadow", "shadow/get/accepted", 10, 0),         \* 14
      Pushed("not_shadow", "shadow/get/accepted", 11, 1),         \* 15
      Pushed("not_shadow", "shadow/get/accepted", 12, 0),         \* 16
      Pushed("other_topic", "shadow/get", 3, 0),                  \* 17
      Row("overstated", "shadow/get/accepted", 3, 0, 0, 9,
          <<>>, <<>>),                                            \* 18
      Row("trailing", "shadow/get/accepted", 3, 0, 0, 0,
          <<255>>, <<>>),                                         \* 19
      Pushed("shadow", "shadow/get/accepted", 17, 0),             \* 20
      Pushed("shadow", "shadow/get/accepted", 18, 1),             \* 21
      Pushed("shadow", "shadow/update/accepted", 19, 0),          \* 22
      Pushed("other_device", "other/shadow/update/accepted", 3, 0)\* 23
    >>

\* the message made of row; one cut short carries no document
Message(row) ==
    IF row.kind = "text" THEN TextFrame(DocumentTexts[row.doc])
    ELSE IF row.topic = "" THEN Binary(row.kind, 0, row.raw)
    ELSE Binary(row.kind,
                IF row.cut > 0 THEN 0 ELSE row.doc,
                Overstated(CutShort(Incoming(row.topic, row.doc, row.qos),
                                    row.cut),
                           row.over)
                \o row.tail)

Messages == [m \in DOMAIN MessageRows |-> Message(MessageRows[m])]

\* `if isinstance(message, bytes): self._handle_mqtt_packet(message)`
Handle(message) ==
    IF message.binary THEN handle_mqtt_packet(message.data) ELSE NotCalled

\* what the handler does with each of the messages
Handled == [m \in DOMAIN MessageRows |-> Handle(Message(MessageRows[m]))]

(***************************************************************************)
(* Session: construction and helpers                                       *)
(***************************************************************************)
\* last_return when no call returned in the last step
NoReturn == [task |-> NoTask, connect |-> "none", via |-> "none",
             call |-> "none", result |-> "none", config |-> "none",
             opened |-> NoHandle]

\* a Python bool as recorded in last_return
Bool(b) == IF b THEN "true" ELSE "false"

\* last_return when connect() returned res to task t at the return statement
\* `via` ("early": line 315, "recheck": 319, "config": 327 and 332, "done":
\* 387, "except": 398), and with it the call `call` of the caller returned
\* `result` ("none": no call returned)
Returned(t, res, via, call, result, cfg) ==
    [task |-> t, connect |-> Bool(res), via |-> via, call |-> call,
     result |-> result, config |-> cfg, opened |-> opened[t]]

\* DeermaMQTTClient.__init__
InitSess ==
    /\ connected = FALSE
    /\ websocket = NoHandle
    /\ listening = FALSE
    /\ listen_task = NoTask
    /\ lock_owner = NoTask
    /\ lock_waiters = <<>>
    /\ transport = [h \in Handles |-> "closed"]
    /\ sent = [h \in Handles |-> <<>>]
    /\ pc = [t \in Tasks |-> IF t \in Callers THEN "idle" ELSE "l_none"]
    /\ op = [c \in Callers |-> "none"]
    /\ mqtt_config = [t \in Tasks |-> "none"]
    /\ opened = [t \in Tasks |-> NoHandle]
    /\ rh = [l \in Listeners |-> NoHandle]
    /\ delay_idx = [l \in Listeners |-> 0]
    /\ cancel_req = [t \in Tasks |-> FALSE]
    /\ calls = 0
    /\ last_return = NoReturn
    /\ stopped = FALSE
    /\ lost = FALSE

\* a listener task that has not been created or has finished
Finished(l) == pc[l] = "l_none"

\* Task.cancel(): a finished task is left alone, any other gets a
\* CancelledError at the await it is suspended in (or will next reach)
CancelTask(cr, l) ==
    IF l # NoTask /\ ~Finished(l) THEN [cr EXCEPT ![l] = TRUE] ELSE cr

\* websocket.send(frame) succeeds on an open WebSocket; on None it raises
\* AttributeError, on a closed one ConnectionClosed
SendOK(ws) == ws # NoHandle /\ transport[ws] = "open"

\* close() of WebSocket h, by the program or by the peer
Close(h) ==
    /\ transport' = [transport EXCEPT ![h] = "closed"]
    /\ sent' = [sent EXCEPT ![h] = <<>>]

\* a frame written to a WebSocket: its MQTT packet type and what it names (the
\* client id of a CONNECT, the topic of a SUBSCRIBE or PUBLISH)
Frame(kind, arg) == [kind |-> kind, arg |-> arg]

\* the topics, without the prefix $aws/things/{device_id}/ they all share
command_topic == "shadow/update"
get_topic == "shadow/get"

\* subscribe_topics of connect()
subscribe_topics == <<"shadow/get/#", "shadow/update/accepted">>

\* the packet identifier a QoS-1 frame is built with: packet_id=i of
\* enumerate(subscribe_topics, 1) for a SUBSCRIBE, packet_id=3 for the
\* PUBLISH of _request_device_state, and for the PUBLISH of a setting request
\* packet_id=4 (async_set_temperature; async_set_volume has packet_id=5, a
\* constant as well)
PacketId(frame) ==
    IF frame.kind = "SUBSCRIBE"
    THEN CHOOSE i \in 1..Len(subscribe_topics) : subscribe_topics[i] = frame.arg
    ELSE IF frame.arg = get_topic THEN 3
    ELSE 4

\* what invoked the connect() a task is in
Kind(t) == IF t \in Listeners THEN "reconnect" ELSE op[t]

\* a handle for a new WebSocket object: one no part of the program refers to
FreeHandles ==
    {h \in Handles : /\ transport[h] # "open"
                     /\ websocket # h
                     /\ \A l \in Listeners : rh[l] # h}

\* an identifier for a new task
FreeListeners == {l \in Listeners : Finished(l)}

(***************************************************************************)
(* Session: the reconnect loop of _listen_messages (the finally block)     *)
(***************************************************************************)
\* `for delay in [5, 10, 15, 30]` from index i on, with self.connected = conn:
\* an iteration sleeps only `if not self.connected`; no await otherwise, so
\* with conn true all remaining iterations pass at once
\* (pcs: the positions of the tasks but for this step of l)
ReconnectLoopPc(pcs, l, i, conn) ==
    IF i > Len(Delays) \/ conn
    THEN /\ pc' = [pcs EXCEPT ![l] = "l_none"]
         /\ delay_idx' = [delay_idx EXCEPT ![l] = 0]
    ELSE /\ pc' = [pcs EXCEPT ![l] = "l_backoff"]
         /\ delay_idx' = [delay_idx EXCEPT ![l] = i]

ReconnectLoop(l, i, conn) == ReconnectLoopPc(pc, l, i, conn)

(***************************************************************************)
(* Session: return of connect() to its caller                              *)
(***************************************************************************)
\* connect() returns res to task t, which called it for k: "connect" (a
\* caller's connect / async_connect), "publish" (_ensure_connected of a
\* setting request) or "reconnect" (the loop above).  conn and ws are
\* self.connected and self._websocket at the return.  No await separates the
\* return from what the caller does next, so this is one step:
\*   reconnect: `if await self.connect(): break`, else the next iteration;
\*   publish:   `return self.connected` in _ensure_connected, then the
\*              PUBLISH is built and sent (an exception gives False).
\* _ensure_connected answering with what connect() returned
ensure_connected_result(res, conn) == res

\* _ensure_connected, res being what connect() returned (True when it was not
\* called) and conn self.connected after it: `return self.connected`
ensure_connected(res, conn) == conn

AfterConnectPc(pcs, t, k, res, conn, ws, via, cfg) ==
    /\ mqtt_config' = [mqtt_config EXCEPT ![t] = "none"]
    /\ opened' = [opened EXCEPT ![t] = NoHandle]
    /\ IF k = "reconnect"
       THEN /\ IF res
               THEN /\ pc' = [pcs EXCEPT ![t] = "l_none"]
                    /\ delay_idx' = [delay_idx EXCEPT ![t] = 0]
               ELSE ReconnectLoopPc(pcs, t, delay_idx[t] + 1, conn)
            /\ last_return' = Returned(t, res, via, "none", "none", cfg)
            /\ UNCHANGED <<op, sent>>
       ELSE /\ UNCHANGED delay_idx
            /\ IF k = "connect"
               THEN /\ pc' = [pcs EXCEPT ![t] = "idle"]
                    /\ op' = [op EXCEPT ![t] = "none"]
                    /\ last_return' = Returned(t, res, via, "connect",
                                            Bool(res), cfg)
                    /\ sent' = sent
               ELSE IF ensure_connected(res, conn) /\ SendOK(ws)
               THEN /\ pc' = [pcs EXCEPT ![t] = "p_sent"]
                    /\ op' = [op EXCEPT ![t] = "publish"]
                    /\ last_return' = Returned(t, res, via, "none",
                                            "none", cfg)
                    /\ sent' = [sent EXCEPT
                                   ![ws] = Append(@, Frame("PUBLISH",
                                                          command_topic))]
               ELSE /\ pc' = [pcs EXCEPT ![t] = "idle"]
                    /\ op' = [op EXCEPT ![t] = "none"]
                    /\ last_return' = Returned(t, res, via, "publish",
                                            "false", cfg)
                    /\ sent' = sent

AfterConnectCfg(t, k, res, conn, ws, via, cfg) ==
    AfterConnectPc(pc, t, k, res, conn, ws, via, cfg)

AfterConnect(t, k, res, conn, ws, via) ==
    AfterConnectCfg(t, k, res, conn, ws, via, mqtt_config[t])

(***************************************************************************)
(* Session: connect()                                                      *)
(***************************************************************************)
\* ConnectEntry with the lock held through the sleeps of the reconnect
\* loop: a caller queues up behind a listen task that waits out its delay
ConnectEntryBehindBackoff(t, k) ==
    IF connected
    THEN /\ AfterConnect(t, k, TRUE, connected, websocket, "early")
         /\ UNCHANGED <<lock_owner, lock_waiters>>
    ELSE /\ IF /\ lock_owner = NoTask
               /\ lock_waiters = <<>>
               /\ \A l \in Listeners \ {t} : pc[l] # "l_backoff"
            THEN /\ lock_owner' = t
                 /\ pc' = [pc EXCEPT ![t] = "c_cfg"]
                 /\ UNCHANGED lock_waiters
            ELSE /\ lock_waiters' = Append(lock_waiters, t)
                 /\ pc' = [pc EXCEPT ![t] = "c_lock"]
                 /\ UNCHANGED lock_owner
         /\ op' = IF t \in Callers THEN [op EXCEPT ![t] = k] ELSE op
         /\ last_return' = NoReturn
         /\ UNCHANGED <<mqtt_config, opened, delay_idx, sent>>

\* ConnectEntry without the lock: the sequence is entered whoever holds it
ConnectEntryUnlocked(t, k) ==
    IF connected
    THEN /\ AfterConnect(t, k, TRUE, connected, websocket, "early")
         /\ UNCHANGED <<lock_owner, lock_waiters>>
    ELSE /\ lock_owner' = t
         /\ pc' = [pc EXCEPT ![t] = "c_cfg"]
         /\ op' = IF t \in Callers THEN [op EXCEPT ![t] = k] ELSE op
         /\ last_return' = NoReturn
         /\ UNCHANGED <<lock_waiters, mqtt_config, opened, delay_idx, sent>>

\* task t calls connect() for k.  `if self.connected: return True`; else
\* `async with self._connect_lock` (taken at once when it is free and nobody
\* waits, else the task queues up), the check again, and the await of
\* _get_mqtt_config_from_api
ConnectEntry(t, k) ==
    IF connected
    THEN /\ AfterConnect(t, k, TRUE, connected, websocket, "early")
         /\ UNCHANGED <<lock_owner, lock_waiters>>
    ELSE /\ IF lock_owner = NoTask /\ lock_waiters = <<>>
            THEN /\ lock_owner' = t
                 /\ pc' = [pc EXCEPT ![t] = "c_cfg"]
                 /\ UNCHANGED lock_waiters
            ELSE /\ lock_waiters' = Append(lock_waiters, t)
                 /\ pc' = [pc EXCEPT ![t] = "c_lock"]
                 /\ UNCHANGED lock_owner
         /\ op' = IF t \in Callers THEN [op EXCEPT ![t] = k] ELSE op
         /\ last_return' = NoReturn
         /\ UNCHANGED <<mqtt_config, opened, delay_idx, sent>>

\* a waiting task gets the lock; `if self.connected: return True`
AcquireLock(t) ==
    /\ pc[t] = "c_lock"
    /\ ~cancel_req[t]
    /\ lock_owner = NoTask
    /\ lock_waiters # <<>>
    /\ Head(lock_waiters) = t
    /\ lock_waiters' = Tail(lock_waiters)
    /\ IF connected
       THEN /\ AfterConnect(t, Kind(t), TRUE, connected, websocket, "recheck")
            /\ UNCHANGED lock_owner
       ELSE /\ lock_owner' = t
            /\ pc' = [pc EXCEPT ![t] = "c_cfg"]
            /\ last_return' = NoReturn
            /\ UNCHANGED <<mqtt_config, opened, delay_idx, op, sent>>
    /\ UNCHANGED <<connected, websocket, listening, listen_task, transport,
                   rh, cancel_req, calls, stopped, lost>>

\* the except branch of connect(): self.connected = False, the WebSocket in
\* self._websocket (if any) is closed, and after the await of close() the
\* handle is cleared (ConnectClosed); with no WebSocket it returns False now
ConnectExcept(t) ==
    /\ connected' = FALSE
    /\ IF websocket # NoHandle
       THEN /\ Close(websocket)
            /\ pc' = [pc EXCEPT ![t] = "c_close"]
            /\ last_return' = NoReturn
            /\ UNCHANGED <<lock_owner, mqtt_config, opened, delay_idx, op>>
       ELSE /\ lock_owner' = NoTask
            /\ AfterConnect(t, Kind(t), FALSE, FALSE, websocket, "except")
            /\ UNCHANGED transport

\* connect() with the config cfg that _get_mqtt_config_from_api returned:
\* `if not mqtt_config: return False`, `if not wss_url: return False`, else
\* on to the SSL context and websockets.connect
ConfigReturned(t, cfg) ==
    IF cfg \in {"empty", "nohost"}
    THEN /\ lock_owner' = NoTask
         /\ AfterConnectCfg(t, Kind(t), FALSE, connected, websocket,
                            "config", cfg)
    ELSE /\ mqtt_config' = [mqtt_config EXCEPT ![t] = cfg]
         /\ pc' = [pc EXCEPT ![t] = "c_open"]
         /\ last_return' = NoReturn
         /\ UNCHANGED <<lock_owner, opened, delay_idx, op, sent>>

\* ConnectGotConfig without the check of wss_url: only an empty config fails
ConnectGotConfigUnchecked(t) ==
    /\ pc[t] = "c_cfg"
    /\ ~cancel_req[t]
    /\ \E cfg \in ConfigKinds :
        IF cfg = "empty"
        THEN /\ lock_owner' = NoTask
             /\ AfterConnectCfg(t, Kind(t), FALSE, connected, websocket,
                                "config", cfg)
        ELSE /\ mqtt_config' = [mqtt_config EXCEPT ![t] = cfg]
             /\ pc' = [pc EXCEPT ![t] = "c_open"]
             /\ last_return' = NoReturn
             /\ UNCHANGED <<lock_owner, opened, delay_idx, op, sent>>
    /\ UNCHANGED <<connected, websocket, listening, listen_task, lock_waiters,
                   transport, rh, cancel_req, calls, stopped, lost>>

\* _get_mqtt_config_from_api returns.  `if not mqtt_config: return False`,
\* `if not wss_url: return False`; client_id is the clientID of the config
\* `or self.device_id`; then the awaits of the SSL context (built in the
\* executor) and of websockets.connect, between which the task does nothing
ConnectGotConfig(t) ==
    /\ pc[t] = "c_cfg"
    /\ ~cancel_req[t]
    /\ \E cfg \in ConfigKinds : ConfigReturned(t, cfg)
    /\ UNCHANGED <<connected, websocket, listening, listen_task, lock_waiters,
                   transport, rh, cancel_req, calls, stopped, lost>>

(***************************************************************************)
(* Session: _get_mqtt_config_from_api                                      *)
(***************************************************************************)
\* an access token as the code tells them apart: None or "" (or no config
\* entry at all), and two tokens that differ
NoToken == "absent"
Tokens == {NoToken, "t1", "t2"}

\* self.mqtt_config["access_token"], fixed by __init__
CapturedTokens == {NoToken, "t1"}

\* the token of config_entry.data if there is one, else the token of the
\* mqtt_config given to __init__
get_latest_access_token(entry, captured) ==
    IF entry # NoToken THEN entry ELSE captured

\* what a GET of the config endpoint comes to: status 401, status 200 with
\* code 401, another status or code, code 0 without data, an exception (a
\* timeout, a connection error, a body that is no JSON), or code 0 with data,
\* which is one of the config kinds
Unauthorized == {"status401", "code401"}
DataKinds == ConfigKinds \ {"empty"}
Answers == Unauthorized \union {"error", "nodata", "raises"} \union DataKinds

\* no request was made
NoAnswer == "none"

\* _get_mqtt_config_from_api with entry the token of the config entry when
\* the function is entered, later the token of the config entry when the
\* first answer is in, captured the token of __init__, answer and retry the
\* answers to the first and the second GET.  It gives the config returned
\* ("empty" for {}), the tokens of the requests made, in order, and the
\* number of times the token was read
get_mqtt_config_from_api(entry, later, captured, answer, retry) ==
    LET access_token == get_latest_access_token(entry, captured)
        latest_token == get_latest_access_token(later, captured)
        Returns(config, requests, reads) ==
            [fn |-> "mqtt_config", config |-> config,
             requests |-> requests, reads |-> reads]
    IN IF access_token = NoToken
       THEN Returns("empty", <<>>, 1)
       ELSE IF answer \in Unauthorized
       THEN IF latest_token # NoToken /\ latest_token # access_token
            THEN Returns(IF retry \in DataKinds THEN retry ELSE "empty",
                         <<access_token, latest_token>>, 2)
            ELSE Returns("empty", <<access_token>>, 2)
       ELSE Returns(IF answer \in DataKinds THEN answer ELSE "empty",
                    <<access_token>>, 1)

\* the arguments drawn, each case once: no answer where no request is made,
\* and the config entry left alone where it is not read again
FetchInputs ==
    {i \in [fn : {"get_mqtt_config"}, entry : Tokens, later : Tokens,
            captured : CapturedTokens,
            answer : Answers \union {NoAnswer},
            retry : Answers \union {NoAnswer}] :
        LET access_token == get_latest_access_token(i.entry, i.captured)
            latest_token == get_latest_access_token(i.later, i.captured)
        IN /\ (i.answer = NoAnswer) <=> (access_token = NoToken)
           /\ (i.retry # NoAnswer) <=> (/\ i.answer \in Unauthorized
                                        /\ latest_token # NoToken
                                        /\ latest_token # access_token)
           /\ (i.answer \notin Unauthorized) => (i.later = i.entry)}

\* ConnectGotConfig with the config computed by _get_mqtt_config_from_api
\* from the tokens and the answers drawn
ConnectFetchedConfig(t) ==
    /\ pc[t] = "c_cfg"
    /\ ~cancel_req[t]
    /\ \E i \in FetchInputs :
        \E fetched \in {get_mqtt_config_from_api(i.entry, i.later,
                                                 i.captured, i.answer,
                                                 i.retry)} :
            /\ input' = i
            /\ output' = fetched
            /\ ConfigReturned(t, fetched.config)
    /\ UNCHANGED <<connected, websocket, listening, listen_task, lock_waiters,
                   transport, rh, cancel_req, calls, stopped, lost>>

\* client_id = mqtt_config.get("clientID") or self.device_id
ClientId(cfg) == IF cfg = "noclient" THEN "device_id" ELSE "clientID"

\* ConnectOpened without the CONNECT frame: the WebSocket is stored and
\* self.connected set, and the task goes on to its sleep
ConnectOpenedFrameOmitted(t) ==
    /\ pc[t] = "c_open"
    /\ ~cancel_req[t]
    /\ FreeHandles # {}
    /\ LET h == CHOOSE x \in FreeHandles : \A y \in FreeHandles : x <= y
       IN /\ websocket' = h
          /\ transport' = [transport EXCEPT ![h] = "open"]
          /\ sent' = [sent EXCEPT ![h] = <<>>]
          /\ opened' = [opened EXCEPT ![t] = h]
    /\ connected' = TRUE
    /\ lost' = FALSE
    /\ pc' = [pc EXCEPT ![t] = "c_grace"]
    /\ last_return' = NoReturn
    /\ UNCHANGED <<listening, listen_task, lock_owner, lock_waiters, op,
                   mqtt_config, rh, delay_idx, cancel_req, calls, stopped>>

\* websockets.connect returns a new WebSocket: it is stored in
\* self._websocket, self.connected = True, and the CONNECT frame is built and
\* sent on it; the task then sleeps 0.5 s
ConnectOpened(t) ==
    /\ pc[t] = "c_open"
    /\ ~cancel_req[t]
    /\ FreeHandles # {} \* with every handle in use the answer is yet to come
    /\ LET h == CHOOSE x \in FreeHandles : \A y \in FreeHandles : x <= y
       IN /\ websocket' = h
          /\ transport' = [transport EXCEPT ![h] = "open"]
          /\ sent' = [sent EXCEPT
                         ![h] = <<Frame("CONNECT", ClientId(mqtt_config[t]))>>]
          /\ opened' = [opened EXCEPT ![t] = h]
    /\ connected' = TRUE
    /\ lost' = FALSE
    /\ pc' = [pc EXCEPT ![t] = "c_grace"]
    /\ last_return' = NoReturn
    /\ UNCHANGED <<listening, listen_task, lock_owner, lock_waiters, op,
                   mqtt_config, rh, delay_idx, cancel_req, calls, stopped>>

\* websockets.connect raises (refused, handshake failure, timeout)
ConnectOpenFailed(t) ==
    /\ pc[t] = "c_open"
    /\ ~cancel_req[t]
    /\ ConnectExcept(t)
    /\ UNCHANGED <<websocket, listening, listen_task, lock_waiters, rh,
                   cancel_req, calls, stopped, lost>>

\* iteration i of the loop over subscribe_topics: the SUBSCRIBE for topic i is
\* sent and the task moves to pc `to`; a failing send goes to the except
\* branch
ConnectSubscribe(t, from, to, i) ==
    /\ pc[t] = from
    /\ ~cancel_req[t]
    /\ IF SendOK(websocket)
       THEN /\ sent' = [sent EXCEPT
                           ![websocket] = Append(@, Frame("SUBSCRIBE",
                                                          subscribe_topics[i]))]
            /\ pc' = [pc EXCEPT ![t] = to]
            /\ last_return' = NoReturn
            /\ UNCHANGED <<connected, transport, lock_owner, mqtt_config,
                           opened, delay_idx, op>>
       ELSE ConnectExcept(t)
    /\ UNCHANGED <<websocket, listening, listen_task, lock_waiters, rh,
                   cancel_req, calls, stopped, lost>>

\* ConnectSubscribe1 with the topics taken in the other order
ConnectSubscribeLastFirst(t) == ConnectSubscribe(t, "c_grace", "c_sub1", 2)

\* the 0.5 s have passed: the first SUBSCRIBE (shadow/get/#) is sent
ConnectSubscribe1(t) == ConnectSubscribe(t, "c_grace", "c_sub1", 1)

\* ConnectSubscribe2 of a connect() whose reconnect attempts go on without
\* sending the second SUBSCRIBE again
ConnectResubscribeSkipped(t) ==
    IF t \in Listeners
    THEN /\ pc[t] = "c_sub1"
         /\ ~cancel_req[t]
         /\ pc' = [pc EXCEPT ![t] = "c_sub2"]
         /\ last_return' = NoReturn
         /\ UNCHANGED <<connected, websocket, listening, listen_task,
                        lock_owner, lock_waiters, transport, sent, op,
                        mqtt_config, rh, delay_idx, cancel_req, calls,
                        opened, stopped, lost>>
    ELSE ConnectSubscribe(t, "c_sub1", "c_sub2", 2)

\* the second SUBSCRIBE (shadow/update/accepted) is sent
ConnectSubscribe2(t) == ConnectSubscribe(t, "c_sub1", "c_sub2", 2)

\* after the subscribes: a listen task still running is cancelled, a new one
\* is created, and _request_device_state sends the shadow/get PUBLISH; when
\* not connected it returns at once, a failing send is only logged, and
\* connect() returns True with no further await
ConnectStartListening(t) ==
    /\ pc[t] = "c_sub2"
    /\ ~cancel_req[t]
    /\ FreeListeners # {}
    /\ LET new == CHOOSE l \in FreeListeners : TRUE \* any unused identifier
           started == [pc EXCEPT ![new] = "l_start"]
           cancelled == [CancelTask(cancel_req, listen_task)
                            EXCEPT ![new] = FALSE]
       IN /\ listen_task' = new
          /\ IF connected /\ SendOK(websocket)
             THEN /\ sent' = [sent EXCEPT
                                 ![websocket] = Append(@, Frame("PUBLISH",
                                                                get_topic))]
                  /\ pc' = [started EXCEPT ![t] = "c_get"]
                  /\ cancel_req' = cancelled
                  /\ last_return' = NoReturn
                  /\ UNCHANGED <<lock_owner, op, mqtt_config, opened,
                                 delay_idx>>
             ELSE /\ lock_owner' = NoTask
                  /\ AfterConnectPc(started, t, Kind(t), TRUE, connected,
                                    websocket, "done", mqtt_config[t])
                  /\ cancel_req' = [cancelled EXCEPT ![t] = FALSE]
    /\ UNCHANGED <<connected, websocket, listening, lock_waiters, transport,
                   rh, calls, stopped, lost>>

\* _request_device_state has returned: connect() returns True
ConnectDone(t) ==
    /\ pc[t] = "c_get"
    /\ ~cancel_req[t]
    /\ lock_owner' = NoTask
    /\ AfterConnect(t, Kind(t), TRUE, connected, websocket, "done")
    /\ UNCHANGED <<connected, websocket, listening, listen_task, lock_waiters,
                   transport, rh, cancel_req, calls, stopped, lost>>

\* the close() of the except branch has returned: self._websocket = None and
\* connect() returns False
ConnectClosed(t) ==
    /\ pc[t] = "c_close"
    /\ ~cancel_req[t]
    /\ websocket' = NoHandle
    /\ lock_owner' = NoTask
    /\ AfterConnect(t, Kind(t), FALSE, connected, NoHandle, "except")
    /\ UNCHANGED <<connected, listening, listen_task, lock_waiters, transport,
                   rh, cancel_req, calls, stopped, lost>>

(***************************************************************************)
(* Session: the calls of the callers                                       *)
(***************************************************************************)
\* a caller calls connect() (async_connect)
CallConnect(c) ==
    /\ pc[c] = "idle"
    /\ calls < MaxCalls
    /\ calls' = calls + 1
    /\ stopped' = FALSE
    /\ ConnectEntry(c, "connect")
    /\ UNCHANGED <<connected, websocket, listening, listen_task, transport,
                   rh, cancel_req, lost>>

\* a caller makes a setting request (async_set_temperature, async_set_volume):
\* _ensure_connected calls connect() when not connected
CallPublish(c) ==
    /\ pc[c] = "idle"
    /\ calls < MaxCalls
    /\ calls' = calls + 1
    /\ stopped' = FALSE
    /\ ConnectEntry(c, "publish")
    /\ UNCHANGED <<connected, websocket, listening, listen_task, transport,
                   rh, cancel_req, lost>>

\* the send of the PUBLISH has returned: the setting request returns True
PublishDone(c) ==
    /\ pc[c] = "p_sent"
    /\ pc' = [pc EXCEPT ![c] = "idle"]
    /\ op' = [op EXCEPT ![c] = "none"]
    /\ last_return' = [NoReturn EXCEPT !.task = c, !.call = "publish",
                                        !.result = "true"]
    /\ UNCHANGED <<connected, websocket, listening, listen_task, lock_owner,
                   lock_waiters, transport, sent, mqtt_config, opened, rh,
                   delay_idx, cancel_req, calls, stopped, lost>>

\* a caller calls disconnect(): the flags are cleared, a listen task still
\* running is cancelled, and with a WebSocket the DISCONNECT frame is sent;
\* a failing send is logged and skips close(); self._websocket = None
CallDisconnect(c) ==
    /\ pc[c] = "idle"
    /\ calls < MaxCalls
    /\ calls' = calls + 1
    /\ stopped' = TRUE
    /\ lost' = FALSE
    /\ connected' = FALSE
    /\ listening' = FALSE
    /\ cancel_req' = CancelTask(cancel_req, listen_task)
    /\ IF SendOK(websocket)
       THEN /\ sent' = [sent EXCEPT
                           ![websocket] = Append(@, Frame("DISCONNECT", ""))]
            /\ pc' = [pc EXCEPT ![c] = "d_sent"]
            /\ op' = [op EXCEPT ![c] = "disconnect"]
            /\ UNCHANGED websocket
            /\ last_return' = NoReturn
       ELSE /\ websocket' = NoHandle
            /\ last_return' = [NoReturn EXCEPT !.task = c,
                                                !.call = "disconnect"]
            /\ UNCHANGED <<sent, pc, op>>
    /\ UNCHANGED <<listen_task, lock_owner, lock_waiters, transport,
                   mqtt_config, opened, rh, delay_idx>>

\* the send of DISCONNECT has returned: `await self._websocket.close()` on
\* whatever self._websocket is now (None raises, which is logged, and
\* self._websocket = None follows at once)
DisconnectClose(c) ==
    /\ pc[c] = "d_sent"
    /\ IF websocket # NoHandle
       THEN /\ Close(websocket)
            /\ pc' = [pc EXCEPT ![c] = "d_closing"]
            /\ last_return' = NoReturn
            /\ UNCHANGED <<websocket, op>>
       ELSE /\ websocket' = NoHandle
            /\ pc' = [pc EXCEPT ![c] = "idle"]
            /\ op' = [op EXCEPT ![c] = "none"]
            /\ last_return' = [NoReturn EXCEPT !.task = c,
                                                !.call = "disconnect"]
            /\ UNCHANGED <<transport, sent>>
    /\ UNCHANGED <<connected, listening, listen_task, lock_owner,
                   lock_waiters, mqtt_config, opened, rh,
                   delay_idx, cancel_req, calls, stopped, lost>>

\* close() has returned: self._websocket = None, disconnect() returns
DisconnectDone(c) ==
    /\ pc[c] = "d_closing"
    /\ websocket' = NoHandle
    /\ pc' = [pc EXCEPT ![c] = "idle"]
    /\ op' = [op EXCEPT ![c] = "none"]
    /\ last_return' = [NoReturn EXCEPT !.task = c, !.call = "disconnect"]
    /\ UNCHANGED <<connected, listening, listen_task, lock_owner,
                   lock_waiters, transport, sent, mqtt_config, opened,
                   rh, delay_idx, cancel_req, calls, stopped, lost>>

(***************************************************************************)
(* Session: _listen_messages                                               *)
(***************************************************************************)
\* the finally block: self._listening = False, self.connected = False, then
\* the reconnect loop, whose first iteration sleeps 5 s
ListenFinally(l) ==
    /\ listening' = FALSE
    /\ connected' = FALSE
    /\ rh' = [rh EXCEPT ![l] = NoHandle]
    /\ ReconnectLoop(l, 1, FALSE)

\* `while self.connected and self._websocket`: the next recv(), or the end of
\* the loop and the finally block
ListenLoop(l) ==
    IF connected /\ websocket # NoHandle
    THEN /\ pc' = [pc EXCEPT ![l] = "l_recv"]
         /\ rh' = [rh EXCEPT ![l] = websocket]
         /\ UNCHANGED <<listening, connected, delay_idx, lost>>
    ELSE /\ ListenFinally(l)
         /\ lost' = TRUE

\* the task starts: it returns at once without a WebSocket, when not
\* connected, or when self._listening is set; else it sets self._listening
\* and enters the loop
ListenStart(l) ==
    /\ pc[l] = "l_start"
    /\ ~cancel_req[l]
    /\ IF websocket = NoHandle \/ ~connected \/ listening
       THEN /\ pc' = [pc EXCEPT ![l] = "l_none"]
            /\ UNCHANGED <<listening, rh>>
       ELSE /\ listening' = TRUE
            /\ pc' = [pc EXCEPT ![l] = "l_recv"]
            /\ rh' = [rh EXCEPT ![l] = websocket]
    /\ last_return' = NoReturn
    /\ UNCHANGED <<connected, websocket, listen_task, lock_owner,
                   lock_waiters, transport, sent, op, mqtt_config,
                   opened, delay_idx, cancel_req, calls, stopped, lost>>

\* recv() returns message m and, if it is bytes, _handle_mqtt_packet handles
\* it: self.callback is coordinator._mqtt_callback, in which a `reported`
\* that is no dict makes {**current_data, **payload} raise TypeError before
\* anything is changed; the handler catches and logs it
ListenReceive(l, m) ==
    /\ pc[l] = "l_recv"
    /\ ~cancel_req[l]
    /\ transport[rh[l]] = "open"
    /\ input' = [fn |-> "message", message |-> m]
    /\ \E handled \in {Handled[m]} :
          /\ output' = handled
          /\ IF handled.callback /\ handled.reported.t = "dict"
             THEN mqtt_callback(ToDict(handled.reported))
             ELSE UNCHANGED coordVars
    /\ ListenLoop(l)
    /\ last_return' = NoReturn
    /\ UNCHANGED <<websocket, listen_task, lock_owner, lock_waiters,
                   transport, sent, op, mqtt_config, opened, cancel_req,
                   calls, stopped>>

\* recv() raises ConnectionClosedOK or ConnectionClosedError: break
ListenClosed(l) ==
    /\ pc[l] = "l_recv"
    /\ ~cancel_req[l]
    /\ transport[rh[l]] = "closed"
    /\ ListenFinally(l)
    /\ lost' = TRUE
    /\ last_return' = NoReturn
    /\ UNCHANGED <<websocket, listen_task, lock_owner, lock_waiters,
                   transport, sent, op, mqtt_config, opened, cancel_req,
                   calls, stopped>>

\* recv() raises another exception: it is logged and the task sleeps 1 s
ListenError(l) ==
    /\ pc[l] = "l_recv"
    /\ ~cancel_req[l]
    /\ transport[rh[l]] = "open"
    /\ pc' = [pc EXCEPT ![l] = "l_errsleep"]
    /\ rh' = [rh EXCEPT ![l] = NoHandle]
    /\ last_return' = NoReturn
    /\ UNCHANGED <<connected, websocket, listening, listen_task, lock_owner,
                   lock_waiters, transport, sent, op, mqtt_config,
                   opened, delay_idx, cancel_req, calls, stopped, lost>>

\* the 1 s have passed: back to the loop condition
ListenRetry(l) ==
    /\ pc[l] = "l_errsleep"
    /\ ~cancel_req[l]
    /\ ListenLoop(l)
    /\ last_return' = NoReturn
    /\ UNCHANGED <<websocket, listen_task, lock_owner, lock_waiters,
                   transport, sent, op, mqtt_config, opened, cancel_req,
                   calls, stopped>>

\* the sleep of the reconnect loop has passed: `await self.connect()`
ListenReconnect(l) ==
    /\ pc[l] = "l_backoff"
    /\ ~cancel_req[l]
    /\ ConnectEntry(l, "reconnect")
    /\ UNCHANGED <<connected, websocket, listening, listen_task, transport,
                   rh, cancel_req, calls, stopped, lost>>

\* a pending CancelledError is raised in task l at the await it is suspended
\* in.  `except Exception` does not catch it.  Inside the try of the loop
\* (recv(), sleep(1)) the finally block runs, and its own awaits go on as
\* usual; anywhere else (before the first step, in the sleep of the
\* reconnect loop, inside connect()) the task ends, and `async with`
\* releases the lock or gives up the wait for it
ListenCancelled(l) ==
    /\ cancel_req[l]
    /\ ~Finished(l)
    /\ cancel_req' = [cancel_req EXCEPT ![l] = FALSE]
    /\ IF pc[l] \in {"l_recv", "l_errsleep"}
       THEN /\ ListenFinally(l)
            /\ UNCHANGED <<lock_owner, lock_waiters, mqtt_config, opened>>
       ELSE /\ pc' = [pc EXCEPT ![l] = "l_none"]
            /\ delay_idx' = [delay_idx EXCEPT ![l] = 0]
            /\ lock_owner' = IF lock_owner = l THEN NoTask ELSE lock_owner
            /\ lock_waiters' = SelectSeq(lock_waiters, LAMBDA t : t # l)
            /\ mqtt_config' = [mqtt_config EXCEPT ![l] = "none"]
            /\ opened' = [opened EXCEPT ![l] = NoHandle]
            /\ rh' = [rh EXCEPT ![l] = NoHandle]
            /\ UNCHANGED <<listening, connected>>
    /\ last_return' = NoReturn
    /\ UNCHANGED <<websocket, listen_task, transport, sent, op, calls,
                   stopped, lost>>

(***************************************************************************)
(* Session: the network                                                    *)
(***************************************************************************)
\* the peer or the network closes an open WebSocket
PeerCloses(h) ==
    /\ transport[h] = "open"
    /\ Close(h)
    /\ last_return' = NoReturn
    /\ UNCHANGED <<connected, websocket, listening, listen_task, lock_owner,
                   lock_waiters, pc, op, mqtt_config, opened, rh,
                   delay_idx, cancel_req, calls, stopped, lost>>

(***************************************************************************)
(* MQTT codec: the functions applied to drawn arguments                    *)
(***************************************************************************)
\* the remaining lengths drawn: the small ones and those around the sizes of
\* two, three and four bytes, up to the largest of four bytes
Lengths ==
    (0..MaxLength)
    \cup {16383, 16384, 16385, 2097151, 2097152, 2097153, 268435455}

\* a remaining length, to be encoded and then parsed at start_pos (behind
\* that many bytes)
LengthInputs ==
    {[fn |-> "remaining_length", length |-> n, start_pos |-> p] :
        n \in Lengths, p \in {0, 1}}

\* _encode_mqtt_remaining_length(length)
EncodeLength ==
    /\ input.fn = "remaining_length"
    /\ output = NoOutput
    /\ output' = [fn |-> "encoded",
                  bytes |-> encode_mqtt_remaining_length(input.length)]
    /\ UNCHANGED input

\* _parse_mqtt_remaining_length(packet, start_pos) on a packet holding the
\* encoded length at start_pos
ParseEncodedLength ==
    /\ input.fn = "remaining_length"
    /\ output.fn = "encoded"
    /\ LET packet == [i \in 1..input.start_pos |-> 48] \o output.bytes
           parsed == parse_mqtt_remaining_length(packet, input.start_pos)
       IN output' = [fn |-> "parsed", bytes |-> output.bytes,
                     length |-> parsed.length, pos |-> parsed.pos]
    /\ UNCHANGED input

(***************************************************************************)
(* Specifications                                                          *)
(***************************************************************************)
NextCoord ==
    \/ Push /\ UNCHANGED <<sessVars, codecVars>>
    \/ RefreshStart /\ UNCHANGED <<sessVars, codecVars>>
    \/ WaterReturns /\ UNCHANGED <<sessVars, codecVars>>
    \/ WaterRaises /\ UNCHANGED <<sessVars, codecVars>>
    \/ StatusArrives /\ UNCHANGED <<sessVars, codecVars>>
    \/ RefreshCommit /\ UNCHANGED <<sessVars, codecVars>>

\* the coordinator and its session as constructed
InitSpecCoord == InitCoord /\ InitSess /\ InitCodec

\* the coordinator alone: refreshes and pushes, the session left aside
SpecCoord == InitSpecCoord /\ [][NextCoord]_vars

\* _setup_mqtt creates the session after the first refresh has returned
InitAfterFirstRefresh ==
    /\ data = RefreshResult(1, EmptyDict, EmptyDict)
    /\ rpc = "idle"
    /\ r_mqtt = EmptyDict
    /\ r_water = WaterBlank
    /\ r_status = NoStatus
    /\ pushLayer = EmptyDict
    /\ overlapPush = EmptyDict
    /\ overlapped = FALSE
    /\ pollSincePush = NoStatus
    /\ dropped = FALSE

\* the messages the session as a whole is run with: a pushed `reported`
\* state and a message that has none
SessionMessages == {1, 3}

NextSess ==
    \/ CallConnect("coordinator") /\ UNCHANGED coordVars /\ NoneApplied
    \/ CallPublish("entity") /\ UNCHANGED coordVars /\ NoneApplied
    \/ CallDisconnect("coordinator") /\ UNCHANGED coordVars /\ NoneApplied
    \/ \E c \in Callers : PublishDone(c) /\ UNCHANGED coordVars /\ NoneApplied
    \/ \E c \in Callers : DisconnectClose(c) /\ UNCHANGED coordVars /\ NoneApplied
    \/ \E c \in Callers : DisconnectDone(c) /\ UNCHANGED coordVars /\ NoneApplied
    \/ \E t \in Tasks : AcquireLock(t) /\ UNCHANGED coordVars /\ NoneApplied
    \/ \E t \in Tasks : ConnectGotConfig(t) /\ UNCHANGED coordVars /\ NoneApplied
    \/ \E t \in Tasks : ConnectOpened(t) /\ UNCHANGED coordVars /\ NoneApplied
    \/ \E t \in Tasks : ConnectOpenFailed(t) /\ UNCHANGED coordVars /\ NoneApplied
    \/ \E t \in Tasks : ConnectSubscribe1(t) /\ UNCHANGED coordVars /\ NoneApplied
    \/ \E t \in Tasks : ConnectSubscribe2(t) /\ UNCHANGED coordVars /\ NoneApplied
    \/ \E t \in Tasks : ConnectStartListening(t) /\ UNCHANGED coordVars /\ NoneApplied
    \/ \E t \in Tasks : ConnectDone(t) /\ UNCHANGED coordVars /\ NoneApplied
    \/ \E t \in Tasks : ConnectClosed(t) /\ UNCHANGED coordVars /\ NoneApplied
    \/ \E l \in Listeners : ListenStart(l) /\ UNCHANGED coordVars /\ NoneApplied
    \/ \E l \in Listeners, m \in SessionMessages : ListenReceive(l, m)
    \/ \E l \in Listeners : ListenClosed(l) /\ UNCHANGED coordVars /\ NoneApplied
    \/ \E l \in Listeners : ListenError(l) /\ UNCHANGED coordVars /\ NoneApplied
    \/ \E l \in Listeners : ListenRetry(l) /\ UNCHANGED coordVars /\ NoneApplied
    \/ \E l \in Listeners : ListenReconnect(l) /\ UNCHANGED coordVars /\ NoneApplied
    \/ \E l \in Listeners : ListenCancelled(l) /\ UNCHANGED coordVars /\ NoneApplied
    \/ \E h \in Handles : PeerCloses(h) /\ UNCHANGED coordVars /\ NoneApplied

\* the session as constructed by _setup_mqtt after the first refresh
InitSpecSess == InitAfterFirstRefresh /\ InitSess /\ InitCodec

\* the session with its callers, its listen tasks and the network
SpecSess == InitSpecSess /\ [][NextSess]_vars

(***************************************************************************)
(* Setting requests: the PUBLISH they build                                *)
(***************************************************************************)
\* text.strip() for blanks
RECURSIVE Strip(_)
Strip(text) ==
    IF text = <<>> THEN text
    ELSE IF Head(text) = " " THEN Strip(Tail(text))
    ELSE IF text[Len(text)] = " " THEN Strip(SubSeq(text, 1, Len(text) - 1))
    ELSE text

\* the value of a sequence of decimal digits
RECURSIVE DigitsValue(_)
DigitsValue(digits) ==
    IF digits = <<>> THEN 0
    ELSE DigitsValue(SubSeq(digits, 1, Len(digits) - 1)) * 10
         + (ord(digits[Len(digits)]) - 48)

\* the digits of a numeral without the underscores written between them
Ungrouped(digits) == SelectSeq(digits, LAMBDA ch : ch # "_")

\* a numeral as int() accepts it: decimal digits, with single underscores
\* allowed between two digits
Numeral(digits) ==
    /\ digits # <<>>
    /\ \A i \in 1..Len(digits) :
          \/ ord(digits[i]) \in 48..57
          \/ /\ digits[i] = "_"
             /\ 1 < i /\ i < Len(digits)
             /\ digits[i + 1] # "_"

\* int(text): blanks around it are dropped, a sign may lead, a numeral
\* follows; any other text is a ValueError (ok false).  Digits outside ASCII
\* are not among the codes drawn
int(text) ==
    LET stripped == Strip(text)
        signed == stripped # <<>> /\ Head(stripped) \in {"+", "-"}
        digits == IF signed THEN Tail(stripped) ELSE stripped
    IN IF Numeral(digits)
       THEN [ok |-> TRUE,
             value |-> IF signed /\ Head(stripped) = "-"
                       THEN 0 - DigitsValue(Ungrouped(digits))
                       ELSE DigitsValue(Ungrouped(digits))]
       ELSE [ok |-> FALSE, value |-> 0]

\* temp_mapping.get(temp_code, 0) with every value one too high
temp_mapping_shifted(temp_code) ==
    IF \E n \in 0..10 : temp_code = str(n)
    THEN 1 + (CHOOSE n \in 0..10 : temp_code = str(n))
    ELSE 0

\* temp_mapping.get(temp_code, 0), temp_mapping being {"0": 0, ..., "10": 10}
temp_mapping_get(temp_code) ==
    IF \E n \in 0..10 : temp_code = str(n)
    THEN CHOOSE n \in 0..10 : temp_code = str(n)
    ELSE 0

\* the payload of a setting request for `field`
SettingPayload(field, value) ==
    JDict(<<
        <<"state", JDict(<<
            <<"desired", JDict(<<
                <<field, JInt(value)>>,
                <<"CommandType", JStr(<<"a", "p", "p">>)>>,
                <<"EnduserId", JStr(device_id)>> >>)>> >>)>> >>)

\* what a setting request hands to websocket.send: the PUBLISH to
\* command_topic built from its payload
Published(payload, packet_id) ==
    [fn |-> "published",
     topic |-> TopicText(command_topic),
     payload |-> payload,
     packet |-> build_mqtt_publish_packet(TopicText(command_topic),
                                          payload, packet_id)]

\* the codes drawn: the numerals of 0..MaxCode, and texts that are none
Codes ==
    {str(n) : n \in 0..MaxCode}
    \cup {<<>>, <<"0", "1">>, <<"0", "0">>, <<"1", "0", "0">>, <<"-", "1">>,
          <<"+", "4">>, <<" ", "4">>, <<"a">>, <<"1", "a">>, <<"4", ".", "0">>,
          <<"1", "_", "0">>, <<"_", "1">>, <<"1", "_">>,
          <<"1", "_", "_", "0">>}

SettingInputs ==
    {[fn |-> f, code |-> c] : f \in {"set_temperature", "set_volume"},
                              c \in Codes}

\* async_set_temperature(temp_code) of a connected session, up to the send
SetTemperature ==
    /\ input.fn = "set_temperature"
    /\ output = NoOutput
    /\ output' = Published(SettingPayload("SetTemp",
                                          temp_mapping_get(input.code)), 4)
    /\ UNCHANGED input

\* async_set_volume(volume_code) of a connected session, up to the send; a
\* ValueError of int() is caught: nothing is sent and False is returned
SetVolume ==
    /\ input.fn = "set_volume"
    /\ output = NoOutput
    /\ LET target_volume == int(input.code)
       IN output' = IF target_volume.ok
                    THEN Published(SettingPayload("SetOutlet",
                                                  target_volume.value), 5)
                    ELSE [fn |-> "failed"]
    /\ UNCHANGED input

(***************************************************************************)
(* PUBLISH packets: built and parsed, and parsed as they arrive            *)
(***************************************************************************)
\* the topics drawn: of one character, the session's own, one with a
\* character of two bytes
Topics ==
    {<<"t">>, TopicText(command_topic), TopicText("shadow/get/accepted"),
     <<"t", "/", NonAscii>>}

\* the packet ids drawn, around the ends of both bytes
PacketIds == {0, 1, 5, 255, 256, 65535}

\* a topic, a payload (the document numbered doc) and a packet id
PublishInputs ==
    {[fn |-> "publish", topic |-> t, doc |-> d, packet_id |-> i] :
        t \in Topics, d \in 1..Len(Documents), i \in PacketIds}

\* _build_mqtt_publish_packet(topic, payload, packet_id)
BuildPublish ==
    /\ input.fn = "publish"
    /\ output = NoOutput
    /\ output' = [fn |-> "built",
                  packet |-> build_mqtt_publish_packet(
                                 input.topic, Documents[input.doc],
                                 input.packet_id)]
    /\ UNCHANGED input

\* what _parse_mqtt_publish_packet(packet) returned, and whether
\* _handle_mqtt_packet(packet) called self.callback
Parsed(packet) ==
    LET publish == parse_mqtt_publish_packet(packet)
    IN [fn |-> "parsed_publish", packet |-> packet,
        none |-> publish.none, topic |-> publish.topic,
        payload |-> publish.payload,
        callback |-> handle_mqtt_packet(packet).callback]

\* _parse_mqtt_publish_packet on the packet built
ParseBuilt ==
    /\ input.fn = "publish"
    /\ output.fn = "built"
    /\ output' = Parsed(output.packet)
    /\ UNCHANGED input

\* the client ids drawn: empty, of one character, with a character of two
\* bytes, and of 130 characters (a remaining length of two bytes)
ClientIds ==
    {<<>>, <<"c">>, <<"c", NonAscii>>, [i \in 1..130 |-> "c"]}

ConnectInputs == {[fn |-> "connect", client_id |-> c] : c \in ClientIds}

\* a topic (one of 130 characters among them) and a packet id
SubscribeInputs ==
    {[fn |-> "subscribe", topic |-> t, packet_id |-> i] :
        t \in Topics \cup {[i \in 1..130 |-> "t"]}, i \in PacketIds}

\* _build_mqtt_connect_packet(client_id)
BuildConnect ==
    /\ input.fn = "connect"
    /\ output = NoOutput
    /\ output' = [fn |-> "built",
                  packet |-> build_mqtt_connect_packet(input.client_id)]
    /\ UNCHANGED input

\* _build_mqtt_subscribe_packet(topic, packet_id)
BuildSubscribe ==
    /\ input.fn = "subscribe"
    /\ output = NoOutput
    /\ output' = [fn |-> "built",
                  packet |-> build_mqtt_subscribe_packet(input.topic,
                                                         input.packet_id)]
    /\ UNCHANGED input

\* the bytes drawn as a remaining-length field with what follows it: fields
\* of one to four bytes, fields whose fourth byte has the continuation bit
\* set (with and without a fifth byte), and fields that end before a byte
\* without it
FieldBytes ==
    {<<0>>, <<127, 9>>, <<128, 1>>, <<255, 127, 9>>, <<255, 255, 127>>,
     <<255, 255, 255, 127>>, <<128, 128, 128, 1, 9>>,
     <<128, 128, 128, 128>>, <<128, 128, 128, 128, 1>>,
     <<255, 255, 255, 255, 127>>, <<255, 255, 255, 255, 255, 1>>,
     <<128>>, <<255, 255>>}

\* such bytes, to be parsed at start_pos (behind that many bytes)
FieldInputs ==
    {[fn |-> "length_field", bytes |-> b, start_pos |-> p] :
        b \in FieldBytes, p \in {0, 1}}

\* _parse_mqtt_remaining_length(packet, start_pos) on the bytes drawn; the
\* function has no raise: whatever the bytes, a tuple is returned
ParseField ==
    /\ input.fn = "length_field"
    /\ output = NoOutput
    /\ LET packet == [i \in 1..input.start_pos |-> 48] \o input.bytes
           parsed == parse_mqtt_remaining_length(packet, input.start_pos)
       IN output' = [fn |-> "parsed_field",
                     length |-> parsed.length, pos |-> parsed.pos]
    /\ UNCHANGED input

\* a PUBLISH of the `reported` state {"y": 1} as the broker sends it
Arriving(qos) == Incoming("shadow/get/accepted", 3, qos)

\* the packets drawn as received: whole, with bytes missing at the end, with
\* a remaining length declared larger or smaller than what follows, and
\* with a byte behind
Packets ==
    {Arriving(q) : q \in {0, 1}}
    \cup {CutShort(Arriving(q), n) : q \in {0, 1}, n \in 1..MaxCut}
    \cup {Overstated(Arriving(q), n) : q \in {0, 1},
                                       n \in (0 - MaxCut)..MaxCut}
    \cup {Arriving(q) \o <<255>> : q \in {0, 1}}

PacketInputs == {[fn |-> "packet", packet |-> p] : p \in Packets}

\* _handle_mqtt_packet(packet) on a packet received
ParsePacket ==
    /\ input.fn = "packet"
    /\ output = NoOutput
    /\ output' = Parsed(input.packet)
    /\ UNCHANGED input

\* the arguments drawn
InitSpecCodec ==
    /\ InitAfterFirstRefresh
    /\ InitSess
    /\ input \in LengthInputs \cup SettingInputs \cup PublishInputs
                \cup PacketInputs \cup ConnectInputs \cup SubscribeInputs
                \cup FieldInputs
    /\ output = NoOutput

NextCodec ==
    \/ BuildPublish /\ UNCHANGED <<coordVars, sessVars>>
    \/ BuildConnect /\ UNCHANGED <<coordVars, sessVars>>
    \/ BuildSubscribe /\ UNCHANGED <<coordVars, sessVars>>
    \/ ParseField /\ UNCHANGED <<coordVars, sessVars>>
    \/ ParseBuilt /\ UNCHANGED <<coordVars, sessVars>>
    \/ ParsePacket /\ UNCHANGED <<coordVars, sessVars>>
    \/ EncodeLength /\ UNCHANGED <<coordVars, sessVars>>
    \/ ParseEncodedLength /\ UNCHANGED <<coordVars, sessVars>>
    \/ SetTemperature /\ UNCHANGED <<coordVars, sessVars>>
    \/ SetVolume /\ UNCHANGED <<coordVars, sessVars>>

\* the functions of the codec, each applied to arguments drawn from the sets
\* above
SpecCodec == InitSpecCodec /\ [][NextCodec]_vars

\* the session once the coordinator's async_connect() has returned True and
\* the listen task it created waits in recv()
Established ==
    /\ connected = TRUE
    /\ websocket = 1
    /\ listening = TRUE
    /\ listen_task = "l1"
    /\ lock_owner = NoTask
    /\ lock_waiters = <<>>
    /\ transport = [h \in Handles |-> IF h = 1 THEN "open" ELSE "closed"]
    /\ sent = [h \in Handles |->
                  IF h = 1
                  THEN <<Frame("CONNECT", "clientID"),
                         Frame("SUBSCRIBE", subscribe_topics[1]),
                         Frame("SUBSCRIBE", subscribe_topics[2]),
                         Frame("PUBLISH", get_topic)>>
                  ELSE <<>>]
    /\ pc = [t \in Tasks |-> IF t = "l1" THEN "l_recv"
                             ELSE IF t \in Callers THEN "idle" ELSE "l_none"]
    /\ op = [c \in Callers |-> "none"]
    /\ mqtt_config = [t \in Tasks |-> "none"]
    /\ opened = [t \in Tasks |-> NoHandle]
    /\ rh = [l \in Listeners |-> IF l = "l1" THEN 1 ELSE NoHandle]
    /\ delay_idx = [l \in Listeners |-> 0]
    /\ cancel_req = [t \in Tasks |-> FALSE]
    /\ last_return = NoReturn
    /\ stopped = FALSE
    /\ lost = FALSE

\* that session, async_connect() being the one call made so far
InitEstablished == Established /\ calls = 1

InitSpecListen == InitAfterFirstRefresh /\ InitEstablished /\ InitCodec

NextListen ==
    \/ \E l \in Listeners, m \in DOMAIN MessageRows : ListenReceive(l, m)
    \/ \E l \in Listeners : ListenError(l) /\ UNCHANGED coordVars /\ NoneApplied
    \/ \E l \in Listeners : ListenRetry(l) /\ UNCHANGED coordVars /\ NoneApplied
    \/ \E l \in Listeners : ListenClosed(l) /\ UNCHANGED coordVars /\ NoneApplied
    \/ \E h \in Handles : PeerCloses(h) /\ UNCHANGED coordVars /\ NoneApplied

\* the listen task of an established session and the messages it receives,
\* up to the loss of the connection
SpecListen == InitSpecListen /\ [][NextListen]_vars

\* SpecListen with the steps that are the program's own to take: a sleep of
\* 1 s ends, and recv() on a closed WebSocket raises.  What recv() gives on
\* an open one is the network's choice
SpecListenFair ==
    /\ SpecListen
    /\ \A l \in Listeners :
          /\ WF_vars(ListenRetry(l) /\ UNCHANGED coordVars /\ NoneApplied)
          /\ WF_vars(ListenClosed(l) /\ UNCHANGED coordVars /\ NoneApplied)

(***************************************************************************)
(* Coordinator: _setup_mqtt and the setting requests                       *)
(***************************************************************************)
\* `success = await self.mqtt_client.async_connect()`, the first call made
\* on the session
SetupConnect ==
    /\ calls = 0
    /\ CallConnect("coordinator")

\* what _setup_mqtt does in the step in which async_connect returns to it:
\* `if success: ... else: self.mqtt_client = None`; every other step leaves
\* the coordinator alone
SetupReturns ==
    /\ dropped' = (\/ dropped
                   \/ /\ last_return'.task = "coordinator"
                      /\ last_return'.call = "connect"
                      /\ last_return'.result = "false")
    /\ UNCHANGED <<data, rpc, r_mqtt, r_water, r_status, pushLayer,
                   overlapPush, overlapped, pollSincePush>>

\* async_set_temperature of the coordinator passing every request on to the
\* session it once created
PassedToSession ==
    /\ calls > 0
    /\ pc["coordinator"] = "idle"
    /\ CallPublish("entity")

\* async_set_temperature / async_set_water_volume of the coordinator, called
\* by an entity once the setup is over: `if not self.device_id or not
\* self.mqtt_client: return False`, else the setting request of the session
CoordinatorSetting ==
    /\ calls > 0
    /\ pc["coordinator"] = "idle"
    /\ IF dropped
       THEN /\ pc["entity"] = "idle"
            /\ calls < MaxCalls
            /\ calls' = calls + 1
            /\ last_return' = [NoReturn EXCEPT !.task = "entity",
                                               !.call = "publish",
                                               !.result = "false"]
            /\ UNCHANGED <<connected, websocket, listening, listen_task,
                           lock_owner, lock_waiters, transport, sent, pc, op,
                           mqtt_config, rh, delay_idx, cancel_req, opened,
                           stopped, lost>>
       ELSE CallPublish("entity")

\* _setup_mqtt, the session it connects and the setting requests that follow
NextSetup ==
    \/ SetupConnect /\ SetupReturns /\ NoneApplied
    \/ CoordinatorSetting /\ SetupReturns /\ NoneApplied
    \/ \E c \in Callers : PublishDone(c) /\ SetupReturns /\ NoneApplied
    \/ \E t \in Tasks : AcquireLock(t) /\ SetupReturns /\ NoneApplied
    \/ \E t \in Tasks : ConnectGotConfig(t) /\ SetupReturns /\ NoneApplied
    \/ \E t \in Tasks : ConnectOpened(t) /\ SetupReturns /\ NoneApplied
    \/ \E t \in Tasks : ConnectOpenFailed(t) /\ SetupReturns /\ NoneApplied
    \/ \E t \in Tasks : ConnectSubscribe1(t) /\ SetupReturns /\ NoneApplied
    \/ \E t \in Tasks : ConnectSubscribe2(t) /\ SetupReturns /\ NoneApplied
    \/ \E t \in Tasks : ConnectStartListening(t) /\ SetupReturns /\ NoneApplied
    \/ \E t \in Tasks : ConnectDone(t) /\ SetupReturns /\ NoneApplied
    \/ \E t \in Tasks : ConnectClosed(t) /\ SetupReturns /\ NoneApplied
    \/ \E l \in Listeners : ListenStart(l) /\ SetupReturns /\ NoneApplied
    \/ \E l \in Listeners : ListenClosed(l) /\ SetupReturns /\ NoneApplied
    \/ \E l \in Listeners : ListenReconnect(l) /\ SetupReturns /\ NoneApplied
    \/ \E l \in Listeners : ListenCancelled(l) /\ SetupReturns /\ NoneApplied
    \/ \E h \in Handles : PeerCloses(h) /\ SetupReturns /\ NoneApplied

\* from the session just constructed by _setup_mqtt
SpecSetup == InitSpecSess /\ [][NextSetup]_vars

\* the established session with the calls counted from here on
InitSpecShutdown ==
    InitAfterFirstRefresh /\ Established /\ calls = 0 /\ InitCodec

\* the coordinator calls disconnect() and connect(); the listen tasks, the
\* connect() of their reconnect loops and the network go on
NextShutdown ==
    \/ CallConnect("coordinator") /\ UNCHANGED coordVars /\ NoneApplied
    \/ CallDisconnect("coordinator") /\ UNCHANGED coordVars /\ NoneApplied
    \/ \E c \in Callers : DisconnectClose(c) /\ UNCHANGED coordVars /\ NoneApplied
    \/ \E c \in Callers : DisconnectDone(c) /\ UNCHANGED coordVars /\ NoneApplied
    \/ \E t \in Tasks : AcquireLock(t) /\ UNCHANGED coordVars /\ NoneApplied
    \/ \E t \in Tasks : ConnectGotConfig(t) /\ UNCHANGED coordVars /\ NoneApplied
    \/ \E t \in Tasks : ConnectOpened(t) /\ UNCHANGED coordVars /\ NoneApplied
    \/ \E t \in Tasks : ConnectOpenFailed(t) /\ UNCHANGED coordVars /\ NoneApplied
    \/ \E t \in Tasks : ConnectSubscribe1(t) /\ UNCHANGED coordVars /\ NoneApplied
    \/ \E t \in Tasks : ConnectSubscribe2(t) /\ UNCHANGED coordVars /\ NoneApplied
    \/ \E t \in Tasks : ConnectStartListening(t) /\ UNCHANGED coordVars /\ NoneApplied
    \/ \E t \in Tasks : ConnectDone(t) /\ UNCHANGED coordVars /\ NoneApplied
    \/ \E t \in Tasks : ConnectClosed(t) /\ UNCHANGED coordVars /\ NoneApplied
    \/ \E l \in Listeners : ListenStart(l) /\ UNCHANGED coordVars /\ NoneApplied
    \/ \E l \in Listeners : ListenClosed(l) /\ UNCHANGED coordVars /\ NoneApplied
    \/ \E l \in Listeners : ListenError(l) /\ UNCHANGED coordVars /\ NoneApplied
    \/ \E l \in Listeners : ListenRetry(l) /\ UNCHANGED coordVars /\ NoneApplied
    \/ \E l \in Listeners : ListenReconnect(l) /\ UNCHANGED coordVars /\ NoneApplied
    \/ \E l \in Listeners : ListenCancelled(l) /\ UNCHANGED coordVars /\ NoneApplied
    \/ \E h \in Handles : PeerCloses(h) /\ UNCHANGED coordVars /\ NoneApplied

\* the established session being shut down
SpecShutdown == InitSpecShutdown /\ [][NextShutdown]_vars

\* connect() called by the coordinator, by a setting request and by the
\* reconnect loop of a listen task, each attempt fetching its config from
\* the endpoint with the tokens and the answers drawn
NextFetch ==
    \/ CallConnect("coordinator") /\ UNCHANGED coordVars /\ NoneApplied
    \/ CallPublish("entity") /\ UNCHANGED coordVars /\ NoneApplied
    \/ \E c \in Callers : PublishDone(c) /\ UNCHANGED coordVars /\ NoneApplied
    \/ \E t \in Tasks : AcquireLock(t) /\ UNCHANGED coordVars /\ NoneApplied
    \/ \E t \in Tasks : ConnectFetchedConfig(t) /\ UNCHANGED coordVars
    \/ \E t \in Tasks : ConnectOpened(t) /\ UNCHANGED coordVars /\ NoneApplied
    \/ \E t \in Tasks : ConnectOpenFailed(t) /\ UNCHANGED coordVars /\ NoneApplied
    \/ \E t \in Tasks : ConnectSubscribe1(t) /\ UNCHANGED coordVars /\ NoneApplied
    \/ \E t \in Tasks : ConnectSubscribe2(t) /\ UNCHANGED coordVars /\ NoneApplied
    \/ \E t \in Tasks : ConnectStartListening(t) /\ UNCHANGED coordVars /\ NoneApplied
    \/ \E t \in Tasks : ConnectDone(t) /\ UNCHANGED coordVars /\ NoneApplied
    \/ \E t \in Tasks : ConnectClosed(t) /\ UNCHANGED coordVars /\ NoneApplied
    \/ \E l \in Listeners : ListenStart(l) /\ UNCHANGED coordVars /\ NoneApplied
    \/ \E l \in Listeners : ListenClosed(l) /\ UNCHANGED coordVars /\ NoneApplied
    \/ \E l \in Listeners : ListenReconnect(l) /\ UNCHANGED coordVars /\ NoneApplied
    \/ \E l \in Listeners : ListenCancelled(l) /\ UNCHANGED coordVars /\ NoneApplied
    \/ \E h \in Handles : PeerCloses(h) /\ UNCHANGED coordVars /\ NoneApplied

\* the session connecting, with the fetch of its config
SpecFetch == InitSpecSess /\ [][NextFetch]_vars

(***************************************************************************)
(* Coordinator: properties                                                 *)
(***************************************************************************)
\* the step in which a refresh returns and its result becomes self.data
RefreshReturns == rpc # "idle" /\ rpc' = "idle"

\* a refresh whose two polls both answered
PollSucceeded == r_water # WaterBlank /\ r_status.kind = "ok"

\* C1: a push that commits while a refresh is in flight is still in the
\* snapshot, with the pushed value, after that refresh commits (stated for
\* the pushed fields other than the two keys the refresh owns).
C1_PushSurvivesInFlightRefresh ==
    [][RefreshReturns =>
         \A f \in (DOMAIN overlapPush) \ ReservedKeys :
             f \in DOMAIN data' /\ data'[f] = overlapPush[f]]_vars

\* C2: with no overlap, after pushes P and then a successful refresh with poll
\* result R, the snapshot has P's value for every field of P, R's fresh value
\* for every field of R never pushed, and keeps its remaining fields (stated
\* for pushes that name none of the two keys the refresh owns).
C2_MergePriority ==
    [][(rpc = "commit" /\ rpc' = "idle" /\ PollSucceeded /\ ~overlapped
          /\ (DOMAIN pushLayer) \cap ReservedKeys = {}) =>
         /\ \A f \in DOMAIN pushLayer :
                f \in DOMAIN data' /\ data'[f] = pushLayer[f]
         /\ \A f \in (DOMAIN r_status.value) \ (DOMAIN pushLayer) :
                f \in DOMAIN data' /\ data'[f] = r_status.value[f]
         /\ data'["water_data"] = r_water
         /\ data'["device_id"] = DeviceId
         /\ \A f \in (DOMAIN data) \
                    (DOMAIN pushLayer \cup DOMAIN r_status.value
                       \cup ReservedKeys) :
                f \in DOMAIN data' /\ data'[f] = data[f]]_vars

\* get_water_data failed in the running refresh: it raised, or it hit an
\* aiohttp.ClientError and returned the blank default
WaterPollFailed == rpc = "water" \/ r_water = WaterBlank

\* C3: a refresh during which the poll failed (network or HTTP error, timeout,
\* exception) leaves every field of an existing snapshot, the water-usage
\* data included, with the value it had (stated for a failure of
\* get_water_data).
C3_PollFailurePreservesState ==
    [][(RefreshReturns /\ data # EmptyDict /\ WaterPollFailed) =>
         \A f \in DOMAIN data : f \in DOMAIN data' /\ data'[f] = data[f]]_vars

C4_NoRetryAfterDisconnect ==
    stopped =>
        \A l \in Listeners : pc[l] \in ConnectPcs => cancel_req[l]

\* C5: after an unexpected disconnection, with no disconnect() issued and the
\* session not connected again, a retry is always scheduled or under way: some
\* task waits out a backoff delay or is inside connect().
C5_ReconnectionPersists ==
    (lost /\ ~stopped /\ ~connected) =>
        \E t \in Tasks : pc[t] \in {"l_backoff"} \cup ConnectPcs

\* the delay the k-th consecutive disconnect is said to schedule
Backoff(k) ==
    IF k = 1 THEN 5 ELSE IF k = 2 THEN 10 ELSE IF k = 3 THEN 15 ELSE 30

\* C6: after an unexpected disconnection (and no disconnect() since), the
\* k-th consecutive disconnect seen by a listen task schedules a reconnect
\* after 5, 10, 15, 30 seconds for k = 1..4, and after 30 seconds for the
\* fifth and any later one: a failed attempt that followed the delay of
\* index k - 1 leaves the task waiting out the delay Backoff(k).
C6_BackoffSequence ==
    [][\A l \in Listeners :
          (pc[l] \in ConnectPcs /\ last_return'.task = l
             /\ last_return'.connect = "false"
             /\ lost' /\ ~stopped' /\ ~connected') =>
              /\ pc'[l] = "l_backoff"
              /\ Delays[delay_idx'[l]] = Backoff(delay_idx[l] + 1)]_vars

\* the tasks executing the connect sequence (past the lock)
InSequence == {t \in Tasks : pc[t] \in ConnectPcs \ {"c_lock"}}

\* the number of CONNECT frames in a log
Connects(log) == Len(SelectSeq(log, LAMBDA f : f.kind = "CONNECT"))

\* C8: at most one task executes the connect sequence at any time, and a task
\* that waited for the lock and gets it while the session is connected returns
\* success without opening a transport and without sending a CONNECT.
C8_ConnectMutuallyExclusive ==
    /\ [](Cardinality(InSequence) <= 1)
    /\ [][\A t \in Tasks :
            (pc[t] = "c_lock" /\ pc'[t] # "c_lock" /\ ~cancel_req[t]
               /\ connected) =>
                /\ last_return'.task = t
                /\ last_return'.connect = "true"
                /\ last_return'.opened = NoHandle
                /\ transport' = transport
                /\ \A h \in Handles :
                       Connects(sent'[h]) = Connects(sent[h])]_vars

\* C8 witness: a caller that had to wait for the lock has returned at the
\* second check of self.connected, while the connection made by the task it
\* waited for is up.
C8_Witness ==
    /\ last_return.task \in Callers
    /\ last_return.via = "recheck"
    /\ last_return.connect = "true"
    /\ connected
    /\ SendOK(websocket)

\* C9: whenever connect() returns failure, the connected flag is false and
\* the session holds no transport handle (stated for the returns at which no
\* disconnect() is in force).
C9_FailedConnectHoldsNothing ==
    (last_return.connect = "false" /\ ~stopped) =>
        (~connected /\ websocket = NoHandle)

\* C10 as stated: a connect() whose configuration lacks the host or lacks
\* the clientID returns failure and has opened no transport.
C10_FailsWithoutHostOrClientId ==
    (last_return.connect # "none"
       /\ last_return.config \in {"nohost", "noclient"}) =>
        (last_return.connect = "false" /\ last_return.opened = NoHandle)

\* C10 as amended: a connect() whose configuration lacks the host returns
\* failure and has opened no transport; with a configuration that lacks only
\* the clientID the attempt goes on and the CONNECT frame it sends on the
\* transport it opens carries the device id.
C10_FailsWithoutHost ==
    /\ (last_return.connect # "none" /\ last_return.config = "nohost") =>
           (last_return.connect = "false" /\ last_return.opened = NoHandle)
    /\ \A t \in Tasks :
           (mqtt_config[t] = "noclient" /\ opened[t] # NoHandle
              /\ transport[opened[t]] = "open") =>
               Head(sent[opened[t]]) = Frame("CONNECT", "device_id")

\* C10 witness: a connect() has returned failure on a configuration without
\* host, with no transport opened.
C10_Witness ==
    /\ last_return.config = "nohost"
    /\ last_return.connect = "false"
    /\ last_return.opened = NoHandle


\* the frames of a log that belong to a connect sequence, the client id of
\* the CONNECT left out
ConnectFrames(log) ==
    LET own == SelectSeq(log, LAMBDA f : \/ f.kind \in {"CONNECT", "SUBSCRIBE"}
                                         \/ f = Frame("PUBLISH", "shadow/get"))
    IN [i \in 1..Len(own) |-> IF own[i].kind = "CONNECT"
                              THEN Frame("CONNECT", "")
                              ELSE own[i]]

\* the frames of a successful connect(), in the order claimed
ConnectOrder ==
    <<Frame("CONNECT", ""),
      Frame("SUBSCRIBE", "shadow/get/#"),
      Frame("SUBSCRIBE", "shadow/update/accepted"),
      Frame("PUBLISH", "shadow/get")>>

\* the step sends the PUBLISH to shadow/get on WebSocket h
SendsGet(h) ==
    /\ Len(sent'[h]) = Len(sent[h]) + 1
    /\ sent'[h][Len(sent'[h])] = Frame("PUBLISH", "shadow/get")

\* C11: on every WebSocket the frames of a connect sequence are sent in the
\* order CONNECT, SUBSCRIBE shadow/get/#, SUBSCRIBE shadow/update/accepted,
\* PUBLISH shadow/get, each at most once; and when the PUBLISH to shadow/get
\* is sent, the listen task has been created (after both subscribes) and has
\* not yet run
C11_ConnectOrder ==
    /\ [](\A h \in Handles :
             LET own == ConnectFrames(sent[h])
             IN /\ Len(own) <= Len(ConnectOrder)
                /\ own = SubSeq(ConnectOrder, 1, Len(own)))
    /\ [][\A h \in Handles :
             SendsGet(h) =>
                 /\ ConnectFrames(sent[h]) = SubSeq(ConnectOrder, 1, 3)
                 /\ listen_task' # NoTask
                 /\ pc'[listen_task'] = "l_start"
                 /\ pc[listen_task'] = "l_none"]_vars

\* a connect sequence has sent its four frames and nothing else is on the
\* WebSocket; the listen task it created has not run yet
C11_Witness ==
    \E h \in Handles :
        /\ transport[h] = "open"
        /\ Len(sent[h]) = 4
        /\ ConnectFrames(sent[h]) = ConnectOrder
        /\ listen_task # NoTask
        /\ pc[listen_task] = "l_start"


\* the step is the return of a setting request of caller c with `result`
SettingReturns(c, result) ==
    /\ last_return'.task = c
    /\ last_return'.call = "publish"
    /\ last_return'.result = result

\* the step writes one PUBLISH to shadow/update on the session's WebSocket,
\* which is open, and writes nothing else
SendsSetting ==
    /\ websocket # NoHandle
    /\ transport[websocket] = "open"
    /\ sent' = [sent EXCEPT
                   ![websocket] = Append(@, Frame("PUBLISH", "shadow/update"))]

\* C12: a setting request made while the session is not connected calls
\* connect() first; when connect() returns False to it, or the session is
\* not connected after it, the request returns False in that step and
\* writes no frame; no returning request writes a frame at its return; and a
\* request returns True only after having written its PUBLISH to the open
\* WebSocket of the connected session
C12_SettingFailsClosed ==
    [][\A c \in Callers :
          /\ (pc[c] = "idle" /\ ~connected /\ calls' # calls
                /\ (op'[c] = "publish" \/ last_return'.call = "publish"))
             => pc'[c] \in ConnectPcs
          /\ (last_return'.task = c /\ last_return'.connect # "none"
                /\ (op'[c] = "publish" \/ last_return'.call = "publish")
                /\ (last_return'.connect = "false" \/ ~connected'))
             => (SettingReturns(c, "false") /\ sent' = sent)
          /\ SettingReturns(c, "false") => (sent' = sent /\ pc[c] # "p_sent")
          /\ SettingReturns(c, "true") => (pc[c] = "p_sent" /\ sent' = sent)
          /\ (pc'[c] = "p_sent" /\ pc[c] # "p_sent")
             => (connected' /\ SendsSetting)
          /\ (pc[c] = "p_sent" /\ pc'[c] # "p_sent")
             => SettingReturns(c, "true")]_vars

\* a setting request made while not connected has returned False after its
\* connect() failed, and no frame is on any WebSocket
C12_Witness ==
    /\ last_return.call = "publish"
    /\ last_return.result = "false"
    /\ last_return.connect = "false"
    /\ last_return.via \in {"config", "except"}
    /\ \A h \in Handles : sent[h] = <<>>


(***************************************************************************)
(* MQTT codec: properties                                                  *)
(***************************************************************************)
\* the number of bytes claimed for the encoding of n
ClaimedSize(n) ==
    IF n <= 127 THEN 1
    ELSE IF n <= 16383 THEN 2
    ELSE IF n <= 2097151 THEN 3
    ELSE 4

\* C17: the encoding of a remaining length n in 0..268435455 has 1 byte for
\* n <= 127, 2 for n <= 16383, 3 for n <= 2097151 and 4 otherwise, with the
\* top bit set on every byte but the last; parsing it yields n and the
\* position just past the encoding
C17_RemainingLengthRoundTrip ==
    (input.fn = "remaining_length" /\ output.fn \in {"encoded", "parsed"})
    => /\ Len(output.bytes) = ClaimedSize(input.length)
       /\ \A i \in 1..Len(output.bytes) :
             /\ output.bytes[i] \in 0..255
             /\ (output.bytes[i] >= 128) <=> (i < Len(output.bytes))
       /\ output.fn = "parsed"
          => /\ output.length = input.length
             /\ output.pos = input.start_pos + Len(output.bytes)

\* the largest length of four bytes was encoded and parsed behind the first
\* byte of a packet
C17_Witness ==
    /\ input.fn = "remaining_length"
    /\ input.length = 268435455
    /\ input.start_pos = 1
    /\ output.fn = "parsed"
    /\ output.bytes = <<255, 255, 255, 127>>


\* the value of `key` in the desired state of a setting request's payload
Desired(payload, key) ==
    GetOrEmpty(GetOrEmpty(GetOrEmpty(payload, "state"), "desired"), key)

\* the PUBLISH goes to $aws/things/{D}/shadow/update and its desired state
\* has `field` = n, CommandType = "app" and EnduserId = the device id
Commands(field, n) ==
    /\ output.fn = "published"
    /\ output.topic = <<"$", "a", "w", "s", "/", "t", "h", "i", "n", "g", "s", "/">>
                      \o device_id \o <<"/", "s", "h", "a", "d", "o", "w", "/", "u", "p", "d", "a", "t", "e">>
    /\ parse_mqtt_publish_packet(output.packet).topic = output.topic
    /\ parse_mqtt_publish_packet(output.packet).payload
       = encode(dumps(output.payload))
    /\ Desired(output.payload, field) = JInt(n)
    /\ Desired(output.payload, "CommandType") = JStr(<<"a", "p", "p">>)
    /\ Desired(output.payload, "EnduserId") = JStr(device_id)

\* C13: async_set_temperature(code) publishes SetTemp = n for the code "n"
\* of each n in 0..10 and SetTemp = 0 for every other code;
\* async_set_volume(code) publishes SetOutlet = n for the numeral code of
\* every n, with no table in between; both to shadow/update with
\* CommandType "app" and EnduserId the device id
C13_CommandMapping ==
    /\ (input.fn = "set_temperature" /\ output # NoOutput)
       => /\ \A n \in 0..10 : input.code = str(n) => Commands("SetTemp", n)
          /\ (\A n \in 0..10 : input.code # str(n))
             => Commands("SetTemp", 0)
    /\ (input.fn = "set_volume" /\ output # NoOutput)
       => \A n \in 0..MaxCode :
             input.code = str(n) => Commands("SetOutlet", n)

\* the code "10" was sent as a temperature and as a volume, or the code "11"
\* as a temperature
C13_Witness ==
    /\ output.fn = "published"
    /\ \/ /\ input.code = <<"1", "0">>
          /\ Desired(output.payload, "SetTemp") = JInt(10)
       \/ /\ input.code = <<"1", "0">>
          /\ Desired(output.payload, "SetOutlet") = JInt(10)
       \/ /\ input.code = <<"1", "1">>
          /\ Desired(output.payload, "SetTemp") = JInt(0)


(***************************************************************************)
(* Listen task: properties                                                 *)
(***************************************************************************)
\* the `state` of the document message m carries
StateOf(m) == GetOrEmpty(Documents[Messages[m].doc], "state")

\* message m is a shadow document pushed on an accepted topic that has a
\* `desired` state and no `reported` state, or an empty one
DesiredOnly(m) ==
    /\ Messages[m].kind = "shadow"
    /\ HasKey(StateOf(m), "desired")
    /\ \/ ~HasKey(StateOf(m), "reported")
       \/ GetOrEmpty(StateOf(m), "reported") = JDict(<<>>)

\* C14: a received shadow document with `desired` only (no `reported`, or
\* an empty one) does not make the handler call the callback, and the
\* snapshot stays as it is; and whenever a received message changes the
\* snapshot, it is the `reported` state of its document that is merged into
\* it
C14_DesiredOnlyIgnored ==
    [][input'.fn = "message" =>
          LET m == input'.message
          IN /\ DesiredOnly(m) => (~output'.callback /\ UNCHANGED coordVars)
             /\ data' # data
                => /\ Messages[m].doc # 0
                   /\ HasKey(StateOf(m), "reported")
                   /\ data' = Merge(data,
                                    ToDict(GetOrEmpty(StateOf(m),
                                                      "reported")))]_vars

\* after a push of y = 1, a document with only desired y = 2 was received:
\* y is still 1
C14_Witness ==
    /\ input.fn = "message"
    /\ DesiredOnly(input.message)
    /\ GetOrEmpty(StateOf(input.message), "desired")
       = JDict(<< <<"y", JInt(2)>> >>)
    /\ "y" \in DOMAIN data
    /\ data["y"] = 1


\* C15: a step in which _mqtt_callback(reportedFields) runs leaves as the
\* snapshot the previous one with exactly the fields of reportedFields
\* overwritten or added: every other field keeps its value, none is lost,
\* and coordinator.data is the new snapshot when the step is over
C15_PushFrame ==
    [][(input'.fn = "message" /\ output'.callback
          /\ output'.reported.t = "dict")
       => LET reportedFields == ToDict(output'.reported)
          IN /\ DOMAIN data' = DOMAIN data \cup DOMAIN reportedFields
             /\ \A f \in DOMAIN data' :
                   data'[f] = IF f \in DOMAIN reportedFields
                              THEN reportedFields[f]
                              ELSE data[f]]_vars

\* a push of device_id = 1 and y = 1 has overwritten the polled device_id
\* and added y; water_data is as polled and x as pushed before
C15_Witness ==
    /\ input.fn = "message"
    /\ output.callback
    /\ output.reported.t = "dict"
    /\ DOMAIN ToDict(output.reported) = {"device_id", "y"}
    /\ data = [water_data |-> 1, device_id |-> 1, x |-> 1, y |-> 1]

(***************************************************************************)
(* C16                                                                     *)
(***************************************************************************)
\* the remaining length the packet declares, and the bytes that follow it
DeclaredLength(packet) == parse_mqtt_remaining_length(packet, 1).length

PresentLength(packet) ==
    Len(packet) - parse_mqtt_remaining_length(packet, 1).pos

\* where the payload begins (0-based): behind the topic, and the packet id
\* of QoS 1 and 2
PayloadStart(packet) ==
    LET pos == parse_mqtt_remaining_length(packet, 1).pos
        topic_length == packet[pos + 1] * 256 + packet[pos + 2]
    IN pos + 2 + topic_length
       + (IF (packet[1] \div 2) % 4 >= 1 THEN 2 ELSE 0)

\* C16: a PUBLISH whose declared remaining length exceeds the bytes present
\* is rejected, the decoder returning no topic and no payload and the
\* callback not being called; and the payload returned for any PUBLISH never
\* reaches beyond the declared remaining length
C16_TruncatedPublishRejected ==
    (input.fn = "packet" /\ output.fn = "parsed_publish") =>
        /\ DeclaredLength(input.packet) > PresentLength(input.packet) =>
              output.none /\ ~output.callback
        /\ ~output.none =>
              PayloadStart(input.packet) + Len(output.payload)
                  <= parse_mqtt_remaining_length(input.packet, 1).pos
                     + DeclaredLength(input.packet)

(***************************************************************************)
(* C18                                                                     *)
(***************************************************************************)
\* C18: the packet built for a topic, a payload and a packet id parses to
\* the same topic and to payload bytes that are the JSON text of the same
\* payload, the packet id not among them
C18_PublishRoundTrip ==
    (input.fn = "publish" /\ output.fn = "parsed_publish") =>
        /\ ~output.none
        /\ output.topic = input.topic
        /\ output.payload = encode(dumps(Documents[input.doc]))
        /\ Decoded(output.payload).ok
        /\ loads(Decoded(output.payload).text) = Documents[input.doc]

\* a payload whose packet needs a remaining length of two bytes, with a
\* packet id of two non-zero bytes, was built and parsed
C18_Witness ==
    /\ input.fn = "publish"
    /\ output.fn = "parsed_publish"
    /\ input.packet_id = 65535
    /\ input.topic = TopicText(command_topic)
    /\ Len(output.packet) > 130
    /\ ~output.none
    /\ loads(Decoded(output.payload).text) = Documents[input.doc]

(***************************************************************************)
(* C19                                                                     *)
(***************************************************************************)
\* the messages that fail frame decoding (too short, cut short, a remaining
\* length beyond the bytes present), or whose payload is no JSON, or no
\* shadow document
BadKinds == {"undecodable", "overstated", "not_json", "not_shadow"}

\* C19: a step of the listen task that receives such a message calls no
\* callback and leaves the coordinator's data as it is; the session is
\* still connected and listening, and the task is in recv() again on its
\* open transport, ready for the next message
C19_BadMessageDropped ==
    [][(input'.fn = "message" /\ Messages[input'.message].kind \in BadKinds)
       => /\ ~output'.callback
          /\ UNCHANGED coordVars
          /\ connected' = connected
          /\ listening' = listening
          /\ \E l \in Listeners :
                /\ pc[l] = "l_recv"
                /\ pc'[l] = "l_recv"
                /\ ~cancel_req'[l]
                /\ transport'[rh'[l]] = "open"]_vars

(***************************************************************************)
(* C20                                                                     *)
(***************************************************************************)
\* the DISCONNECT frame was written to transport h: h is the transport the
\* session held when disconnect() was called
SentDisconnect(h) ==
    \E i \in 1..Len(sent[h]) : sent[h][i] = Frame("DISCONNECT", "")

\* C20: when disconnect() has returned, the session holds no transport
\* handle and the transport it held when it was called is closed, whether
\* the DISCONNECT frame could be sent or not
C20_DisconnectCloses ==
    last_return.call = "disconnect" =>
        /\ websocket = NoHandle
        /\ \A h \in Handles : SentDisconnect(h) => transport[h] = "closed"

(***************************************************************************)
(* C21                                                                     *)
(***************************************************************************)
\* the step is a call of disconnect() made while none is in progress, the
\* call before it having been a disconnect() too
SecondDisconnect ==
    /\ stopped
    /\ \A c \in Callers : op[c] = "none"
    /\ calls' = calls + 1
    /\ stopped'

\* C21: a second disconnect(), no connect() or setting request having been
\* called since the first, writes no frame and returns at once, leaving the
\* session not connected, not listening and without a transport handle, as
\* the first call left it
C21_DisconnectIdempotent ==
    [][SecondDisconnect =>
          /\ sent' = sent
          /\ last_return'.call = "disconnect"
          /\ ~connected /\ ~connected'
          /\ ~listening /\ ~listening'
          /\ websocket = NoHandle /\ websocket' = NoHandle]_vars

(***************************************************************************)
(* C22                                                                     *)
(***************************************************************************)
\* the QoS-1 frames of a log: the SUBSCRIBEs and the PUBLISHes
WithPacketId(log) ==
    SelectSeq(log, LAMBDA f : f.kind \in {"SUBSCRIBE", "PUBLISH"})

\* C22: on every WebSocket, each QoS-1 frame carries a larger packet
\* identifier than the QoS-1 frame sent before it, so no two successive
\* ones carry the same
C22_PacketIdsIncrease ==
    \A h \in Handles :
        LET frames == WithPacketId(sent[h])
        IN \A i \in 1..Len(frames) - 1 :
              PacketId(frames[i]) < PacketId(frames[i + 1])

(***************************************************************************)
(* C23                                                                     *)
(***************************************************************************)
\* the step takes the connect() that the reconnect loop of listen task l
\* called past its subscribes: the sequence has succeeded
ReconnectSucceeds(l) ==
    /\ pc[l] = "c_sub2"
    /\ ~cancel_req[l]
    /\ pc'[l] # "c_sub2"

\* C23: a connect() called by the reconnect loop that gets past its
\* subscribes has fetched the config anew and opened a transport of its own,
\* on which it has sent CONNECT and the two SUBSCRIBEs in this order; the
\* step creates exactly one new listen task, which has yet to run (a task
\* that has finished leaves its name free for the new one), cancels the
\* listen task there was if it still runs, and sends the PUBLISH to
\* shadow/get behind the SUBSCRIBEs if the session is still connected on an
\* open transport
C23_ReconnectRepeatsSequence ==
    [][\A l \in Listeners :
          ReconnectSucceeds(l) =>
              /\ mqtt_config[l] \in {"noclient", "full"}
              /\ opened[l] # NoHandle
              /\ websocket \in {opened[l], NoHandle}
              /\ transport[opened[l]] = "open"
                 => ConnectFrames(sent[opened[l]]) = SubSeq(ConnectOrder, 1, 3)
              /\ {n \in Listeners : pc[n] = "l_none" /\ pc'[n] # "l_none"}
                 = {listen_task'}
              /\ pc'[listen_task'] = "l_start"
              /\ (listen_task # NoTask /\ pc[listen_task] # "l_none")
                 => /\ listen_task' # listen_task
                    /\ (cancel_req'[listen_task]
                        \/ pc'[listen_task] = "l_none")
              /\ (connected /\ SendOK(websocket))
                 => /\ SendsGet(websocket)
                    /\ ConnectFrames(sent'[websocket]) = ConnectOrder]_vars

\* the connect() of a reconnect loop has sent its four frames on the
\* transport it opened and created the new listen task; the task that called
\* it was the listen task until then and is cancelled
C23_Witness ==
    \E l \in Listeners :
        /\ pc[l] = "c_get"
        /\ cancel_req[l]
        /\ opened[l] # NoHandle
        /\ websocket = opened[l]
        /\ ConnectFrames(sent[opened[l]]) = ConnectOrder
        /\ listen_task # l
        /\ pc[listen_task] = "l_start"

(***************************************************************************)
(* C24                                                                     *)
(***************************************************************************)
\* the positions in which a task is suspended inside websocket.send(): of a
\* SUBSCRIBE, of the PUBLISH to shadow/get, of the PUBLISH of a setting
\* request, of the DISCONNECT
SendPcs == {"c_sub1", "c_sub2", "c_get", "p_sent", "d_sent"}

\* C24: never are two tasks inside a send at the same time
C24_SendsSerialized ==
    \A t1, t2 \in Tasks :
        (pc[t1] \in SendPcs /\ pc[t2] \in SendPcs) => t1 = t2

(***************************************************************************)
(* C25                                                                     *)
(***************************************************************************)
\* the tasks whose connect() has opened the transport and has not yet sent
\* both subscribes and started the listen task
Establishing == {t \in Tasks : pc[t] \in {"c_grace", "c_sub1", "c_sub2"}}

\* C25: a connect(), called by a caller or by a setting request, that
\* returns True without running the sequence (at the first check of
\* self.connected or at the one behind the lock) does so only while no
\* connect sequence is between the opening of its transport and the start
\* of its listen task
C25_NoOpOnlyWhenActive ==
    [][(last_return'.connect = "true"
          /\ last_return'.via \in {"early", "recheck"})
       => Establishing = {}]_vars

(***************************************************************************)
(* C26                                                                     *)
(***************************************************************************)
\* C26: whenever self.connected is True the session holds a transport
\* handle, whatever the interleaving of connect(), disconnect(), setting
\* requests and the listen task
C26_ConnectedHoldsHandle == connected => websocket # NoHandle

(***************************************************************************)
(* C27                                                                     *)
(***************************************************************************)
\* the listen tasks suspended in recv()
Receiving == {l \in Listeners : pc[l] = "l_recv"}

\* the listen task connect() created returns at its first lines, turned away
\* by the guards on self._websocket, self.connected and self._listening,
\* with no disconnect() called and no closure of the transport since the
\* connect() that created it
TurnedAway(l) ==
    /\ pc[l] = "l_start"
    /\ ~cancel_req[l]
    /\ pc'[l] = "l_none"
    /\ l = listen_task
    /\ ~stopped
    /\ ~lost
    /\ websocket # NoHandle
    /\ transport[websocket] = "open"

\* the listen tasks created and not ended: about to start, in recv(), or in
\* the 1 s sleep after an error of recv()
Running ==
    {l \in Listeners : pc[l] \in {"l_start", "l_recv", "l_errsleep"}}

\* a connect() has just returned True, with no disconnect() called and no
\* closure of the transport since
ConnectSucceeded ==
    /\ last_return.connect = "true"
    /\ ~stopped
    /\ ~lost
    /\ websocket # NoHandle
    /\ transport[websocket] = "open"

C28_ConnectFrameFirst ==
    \A h \in Handles : sent[h] # <<>> => sent[h][1].kind = "CONNECT"

\* a setting request of another task has sent its PUBLISH while connect()
\* was still before its subscribes, and the frame follows the CONNECT
C28_Witness ==
    \E h \in Handles :
        /\ Len(sent[h]) = 2
        /\ sent[h][1].kind = "CONNECT"
        /\ sent[h][2].kind = "PUBLISH"
        /\ sent[h][2].arg = command_topic
        /\ \E t \in Tasks : pc[t] = "c_grace" /\ opened[t] = h

(***************************************************************************)
(* C29                                                                     *)
(***************************************************************************)
\* a connect attempt has just got the outcome of its config fetch
Fetched == input.fn = "get_mqtt_config"

\* the attempt has returned False and left the lock free
AttemptFailed ==
    /\ last_return.connect = "false"
    /\ last_return.via = "config"
    /\ lock_owner = NoTask

\* C29: a connect attempt makes at most two config requests; when the
\* endpoint answers unauthorized the token is read again once and the
\* request is made once more; when that second request does not succeed
\* the attempt returns False and leaves the lock free for a later attempt
C29_RetryOnceOnUnauthorized ==
    Fetched =>
        /\ Len(output.requests) <= 2
        /\ input.answer \in Unauthorized =>
              /\ output.reads = 2
              /\ Len(output.requests) = 2
              /\ input.retry \notin DataKinds => AttemptFailed

(***************************************************************************)
(* C30                                                                     *)
(***************************************************************************)
\* C30: a connect attempt that finds no access token in the config entry
\* returns False without a request to the config endpoint, without opening
\* a WebSocket and without changing self.connected; and every request an
\* attempt makes carries the token the config entry holds at that time,
\* not the one given to __init__
C30_AbsentTokenFailsAttempt ==
    [][Fetched' =>
         /\ input'.entry = NoToken =>
               /\ output'.requests = <<>>
               /\ AttemptFailed'
               /\ connected' = connected
               /\ websocket' = websocket
               /\ transport' = transport
         /\ \A k \in 1..Len(output'.requests) :
               output'.requests[k] \in {input'.entry, input'.later}]_vars

(***************************************************************************)
(* C31                                                                     *)
(***************************************************************************)
\* topic is $aws/things/{D}/shadow/update/accepted, or
\* $aws/things/{D}/shadow/get/accepted or a level below it, D being the
\* device id of the session
OwnTopic(topic) ==
    LET get_accepted == TopicText("shadow/get/accepted")
    IN \/ topic = TopicText("shadow/update/accepted")
       \/ topic = get_accepted
       \/ /\ Len(topic) > Len(get_accepted)
          /\ SubSeq(topic, 1, Len(get_accepted) + 1) = get_accepted \o <<"/">>

\* message m is a PUBLISH that parses, on a topic that is not the session's
ForeignPublish(m) ==
    /\ Messages[m].binary
    /\ MessageRows[m].topic # ""
    /\ LET publish == parse_mqtt_publish_packet(Messages[m].data)
       IN ~publish.none /\ ~OwnTopic(publish.topic)

\* C31: a PUBLISH received on a topic that is neither of the two topics of
\* the session's own device never calls the push callback and leaves the
\* coordinator's data alone, whatever state it carries
C31_OnlyOwnTopicsReachCallback ==
    [][(input'.fn = "message" /\ ForeignPublish(input'.message))
       => (~output'.callback /\ UNCHANGED coordVars)]_vars

(***************************************************************************)
(* C32                                                                     *)
(***************************************************************************)
\* recv() of listen task l raises for the closure of its WebSocket, with no
\* disconnect() called
ClosureSeen(l) ==
    /\ pc[l] = "l_recv"
    /\ transport[rh[l]] = "closed"
    /\ ~stopped
    /\ pc'[l] # "l_recv"

\* listen task l has left its loop and sleeps before its first reconnect
ReconnectScheduled(l) ==
    /\ pc[l] = "l_backoff"
    /\ delay_idx[l] = 1
    /\ ~connected
    /\ ~listening

\* C32: when recv() raises for a closure and disconnect() was not called,
\* the listen task leaves its loop, self.connected is False and the first
\* reconnect is scheduled; and a listen task that met another error of
\* recv() goes on to receive a message or to schedule the reconnect, it
\* does not stay in its loop of errors for ever
C32_ClosureReconnects ==
    /\ [][\A l \in Listeners : ClosureSeen(l) => ReconnectScheduled(l)']_vars
    /\ \A l \in Listeners :
          (pc[l] = "l_errsleep")
             ~> (input.fn = "message" \/ ReconnectScheduled(l))

(***************************************************************************)
(* C33                                                                     *)
(***************************************************************************)
\* the listen tasks waiting out a delay of the reconnect loop
BackingOff == {l \in Listeners : pc[l] = "l_backoff"}

\* caller c issues a setting request on a session that is not connected
SettingIssued(c) ==
    /\ pc[c] = "idle"
    /\ ~connected
    /\ calls' # calls
    /\ op'[c] = "publish"

\* C33: a listen task waiting out a delay of the reconnect loop neither
\* holds the connect lock nor waits for it, and a setting request issued
\* during such a delay, with no connect() in progress, enters its own
\* connect attempt in that step
C33_BackoffHoldsNoLock ==
    /\ [](\A l \in BackingOff :
            /\ lock_owner # l
            /\ \A i \in 1..Len(lock_waiters) : lock_waiters[i] # l)
    /\ [][\A c \in Callers :
            (/\ SettingIssued(c)
             /\ BackingOff # {}
             /\ \A t \in Tasks : pc[t] \notin ConnectPcs)
            => (pc'[c] = "c_cfg" /\ lock_owner' = c)]_vars

\* a setting request holds the lock and fetches its config while a listen
\* task still waits out its delay
C33_Witness ==
    /\ BackingOff # {}
    /\ \E c \in Callers :
          /\ op[c] = "publish"
          /\ pc[c] = "c_cfg"
          /\ lock_owner = c

(***************************************************************************)
(* C34                                                                     *)
(***************************************************************************)
\* the connect of _setup_mqtt has just returned False
FirstConnectFailed ==
    /\ last_return.task = "coordinator"
    /\ last_return.call = "connect"
    /\ last_return.result = "false"

\* C34: once the connect of _setup_mqtt has returned False the coordinator
\* has no session object, and stays without; every setting request made
\* from then on returns False in the step it is made, no task entering
\* connect(), the lock, the flags and the WebSocket as they were and no
\* frame sent
C34_FailedSetupDisablesCommands ==
    /\ [](FirstConnectFailed => dropped)
    /\ [][dropped => dropped']_vars
    /\ [][(dropped /\ calls' # calls)
          => /\ last_return'.task = "entity"
             /\ last_return'.call = "publish"
             /\ last_return'.result = "false"
             /\ last_return'.connect = "none"
             /\ pc' = pc
             /\ sent' = sent
             /\ lock_owner' = lock_owner
             /\ connected' = connected
             /\ websocket' = websocket
             /\ transport' = transport]_vars

\* a setting request has returned False on a coordinator that dropped its
\* session, nothing sent on any WebSocket
C34_Witness ==
    /\ dropped
    /\ calls = 2
    /\ last_return.call = "publish"
    /\ last_return.result = "false"
    /\ ~connected
    /\ \A h \in Handles : sent[h] = <<>>

(***************************************************************************)
(* Coordinator: the field names of the snapshot                            *)
(***************************************************************************)
\* C35: across pushes and refreshes (successful or failed) none of which
\* overlapped a running refresh, the set of field names of the
\* MergedSnapshot never shrinks: every field of the snapshot before a step is
\* a field of the snapshot after it.
C35_FieldsNeverDisappear ==
    [][~overlapped' => (DOMAIN data) \subseteq (DOMAIN data')]_vars

\* C35 witness: with no overlap, the snapshot holds the status field x and
\* the pushed field y although the latest refresh, which returned after the
\* latest push, polled a status without x and without y.
C35_Witness ==
    /\ ~overlapped
    /\ rpc = "idle"
    /\ pollSincePush.kind = "ok"
    /\ pollSincePush.value = EmptyDict
    /\ "y" \in DOMAIN pushLayer
    /\ {"x", "y"} \subseteq DOMAIN data

(***************************************************************************)
(* Setting requests: a volume code that is no integer                      *)
(***************************************************************************)
\* the decimal text of an integer: decimal digits, read generously with a
\* sign in front and blanks around
DecimalText(text) ==
    LET stripped == Strip(text)
        signed == stripped # <<>> /\ Head(stripped) \in {"+", "-"}
        digits == IF signed THEN Tail(stripped) ELSE stripped
    IN /\ digits # <<>>
       /\ \A i \in 1..Len(digits) : ord(digits[i]) \in 48..57

\* C36: async_set_volume called with a code that is not the decimal text of
\* an integer returns False and hands no PUBLISH to the WebSocket, and the
\* step leaves the connected flag and the WebSocket handle as they were.
C36_NonIntegerVolumeFails ==
    /\ []((input.fn = "set_volume" /\ output # NoOutput
            /\ ~DecimalText(input.code)) => output.fn = "failed")
    /\ [][(input.fn = "set_volume" /\ output' # output)
            => UNCHANGED <<connected, websocket>>]_vars

(***************************************************************************)
(* MQTT codec: the remaining length of the frames built                    *)
(***************************************************************************)
\* the index of the last byte of the fixed header: the first byte from the
\* second on without the continuation bit
HeaderEnd(packet) ==
    CHOOSE i \in 2..Len(packet) :
        /\ packet[i] < 128
        /\ \A j \in 2..(i - 1) : packet[j] >= 128

\* the value of the remaining-length field whose bytes are packet[2..last]:
\* seven bits a byte, the low ones first
RECURSIVE FieldValue(_, _)
FieldValue(packet, last) ==
    IF last < 2 THEN 0
    ELSE FieldValue(packet, last - 1)
         + (packet[last] % 128) * (128 ^ (last - 2))

\* C37: in every CONNECT, SUBSCRIBE and PUBLISH frame the builders produce,
\* the remaining-length field ends within four bytes and its value is the
\* number of bytes that follow the fixed header (the type byte and the bytes
\* of the field).
C37_FramesLengthConsistent ==
    (output.fn = "built") =>
        /\ \E i \in 2..5 : i <= Len(output.packet) /\ output.packet[i] < 128
        /\ FieldValue(output.packet, HeaderEnd(output.packet))
           = Len(output.packet) - HeaderEnd(output.packet)

\* C37 witness: a CONNECT frame for a client id of 130 characters was built,
\* with a remaining-length field of two bytes.
C37_Witness ==
    /\ input.fn = "connect"
    /\ output.fn = "built"
    /\ Len(input.client_id) = 130
    /\ output.packet[1] = 16
    /\ HeaderEnd(output.packet) = 3
    /\ Len(output.packet) = 145

(***************************************************************************)
(* MQTT codec: a remaining length of more than four bytes                  *)
(***************************************************************************)
\* the first four bytes of the field all have the continuation bit set
FifthByteRequired(bytes) ==
    /\ Len(bytes) >= 4
    /\ \A i \in 1..4 : bytes[i] >= 128

\* C38: _parse_mqtt_remaining_length consumes at most 4 bytes, and for a
\* field whose fourth byte still has the continuation bit set it reports an
\* error and returns no value.
C38_FifthByteIsProtocolError ==
    (input.fn = "length_field" /\ output # NoOutput) =>
        /\ output.fn = "parsed_field"
           => output.pos - input.start_pos \in 0..4
        /\ FifthByteRequired(input.bytes) => output.fn = "ProtocolError"

====
